---------------------------- MODULE Spec2Model ----------------------------
(***************************************************************************)
(* A model of yoru's retained-mode UI core: the per-node layout cache with *)
(* its weak parent chain (src/layout.rs), the reactive dependency graph    *)
(* (src/tracking.rs) and the widget tree that drives both once per frame   *)
(* (src/lib.rs, src/element.rs).                                           *)
(*                                                                         *)
(* f32 values are modelled by integers; f32::INFINITY by the value Inf,    *)
(* which absorbs addition and subtraction of finite values.                *)
(***************************************************************************)
EXTENDS Integers, Sequences, FiniteSets, TLC

(***************************************************************************)
(* Bounds of the model.                                                    *)
(***************************************************************************)
\* number of BoxLayout nodes
NumNodes == 3

\* f32::INFINITY
Inf == 1000

Nodes == 1..NumNodes
\* Option::None of a parent link
NoNode == 0

(***************************************************************************)
(* math.rs                                                                 *)
(***************************************************************************)
FAdd(a, b) == IF a = Inf \/ b = Inf THEN Inf ELSE a + b
FSub(a, b) == IF a = Inf THEN Inf ELSE a - b
FMul(a, b) == IF a = Inf \/ b = Inf THEN Inf ELSE a * b

Size(h, v) == [horizontal |-> h, vertical |-> v]
SizeSub(a, b) == Size(FSub(a.horizontal, b.horizontal), FSub(a.vertical, b.vertical))
SizeAdd(a, b) == Size(FAdd(a.horizontal, b.horizontal), FAdd(a.vertical, b.vertical))

FMax(a, b) == IF a >= b THEN a ELSE b

Cross(axis) == IF axis = "Vertical" THEN "Horizontal" ELSE "Vertical"
SizeFromAxes(main_axis, main_size, cross_size) ==
    IF main_axis = "Horizontal"
    THEN [horizontal |-> main_size, vertical |-> cross_size]
    ELSE [horizontal |-> cross_size, vertical |-> main_size]
SizeAxis(size, axis) == IF axis = "Vertical" THEN size.vertical ELSE size.horizontal

Rect(x, y, w, h) == [x |-> x, y |-> y, w |-> w, h |-> h]
RectFromLrtb(left, right, top, bottom) ==
    Rect(left, top, FSub(right, left), FSub(bottom, top))
RectLeft(r) == r.x
RectRight(r) == FAdd(r.x, r.w)
RectTop(r) == r.y
RectBottom(r) == FAdd(r.y, r.h)
RectSize(r) == Size(r.w, r.h)
FromTopleftSize(x, y, size) == Rect(x, y, size.horizontal, size.vertical)

SizeRect(l, r, t, b) == [left |-> l, right |-> r, top |-> t, bottom |-> b]
SizeRectFrom(v) == SizeRect(v, v, v, v)
SizeRectAdd(a, b) ==
    SizeRect(a.left + b.left, a.right + b.right, a.top + b.top, a.bottom + b.bottom)
SizeRectScale(s, a) == SizeRect(s * a.left, s * a.right, s * a.top, s * a.bottom)
SumAxes(a) == Size(a.left + a.right, a.top + a.bottom)
SizeRectFromAxis(axis, start, end) ==
    IF axis = "Horizontal" THEN SizeRect(start, end, 0, 0) ELSE SizeRect(0, 0, start, end)
ShrinkBy(r, s) ==
    RectFromLrtb(RectLeft(r) + s.left, FSub(RectRight(r), s.right),
                 RectTop(r) + s.top, FSub(RectBottom(r), s.bottom))

(***************************************************************************)
(* style.rs, layout.rs: styles and layout inputs                           *)
(***************************************************************************)
Fit == [tag |-> "Fit", size |-> 0]
Expand == [tag |-> "Expand", size |-> 0]
Fixed(size) == [tag |-> "Fixed", size |-> size]

\* Sizing::as_definite(scale_factor).unwrap_or(otherwise)
AsDefiniteOr(sizing, scale_factor, otherwise) ==
    IF sizing.tag = "Fixed" THEN sizing.size * scale_factor ELSE otherwise

\* the LayoutStyle literal of Label::new and Div::new: the three spacings
\* differ, sizing, axis, direction and justification are the same
LayoutStyle(margin, padding, border_size) ==
    [margin |-> SizeRectFrom(margin), padding |-> SizeRectFrom(padding),
     border_size |-> border_size,
     width |-> Fit, height |-> Fit,
     main_axis |-> "Vertical", main_direction |-> "Positive",
     main_justify |-> "Min", cross_justify |-> "Min"]

\* the style Label::new gives its BoxLayout
LabelStyle == LayoutStyle(0, 0, 0)
\* the style Div::new gives its BoxLayout
DivStyle == LayoutStyle(1, 2, 2)

ComputeSize(available, scale_factor) ==
    [tag |-> "ComputeSize", available |-> available, scale_factor |-> scale_factor]
FinalLayout(allocated, scale_factor) ==
    [tag |-> "FinalLayout", allocated |-> allocated, scale_factor |-> scale_factor]

Available(input) ==
    IF input.tag = "ComputeSize" THEN input.available ELSE RectSize(input.allocated)

ComputedLayout(margin_box) == [margin_box |-> margin_box]

\* CachedLayout::new_invalid
NewInvalid ==
    [is_valid |-> FALSE,
     with_input |-> ComputeSize(Size(0, 0), 0),
     cached |-> ComputedLayout(Rect(0, 0, 0, 0))]

\* LayoutCache::new
NewLayoutCache ==
    [parent |-> NoNode,
     cached_unknown |-> NewInvalid,
     cached_known |-> NewInvalid,
     cached_final |-> NewInvalid]

Slots == {"cached_unknown", "cached_known", "cached_final"}

\* a selection that tests the width only
SlotOfWidth(input) ==
    IF input.tag = "ComputeSize"
    THEN IF input.available.horizontal = Inf THEN "cached_unknown" ELSE "cached_known"
    ELSE "cached_final"

\* the slot get_or_update selects for an input
SlotOf(input) ==
    IF input.tag = "ComputeSize"
    THEN IF input.available.horizontal = Inf \/ input.available.vertical = Inf
         THEN "cached_unknown"
         ELSE "cached_known"
    ELSE "cached_final"

\* the inputs the layout-cache specification calls compute_layout_leaf with
LayoutInputs ==
    { ComputeSize(Size(Inf, 12), 1),
      ComputeSize(Size(14, Inf), 1),
      ComputeSize(Size(14, 12), 1),
      FinalLayout(Rect(0, 0, 14, 12), 1),
      FinalLayout(Rect(1, 2, 14, 12), 1) }

\* the sizes a measure closure returns
MeasuredSizes == { Size(2, 1), Size(3, 1) }

VARIABLES
    cache,      \* node -> LayoutCacheInner
    attrs,      \* node -> LayoutStyle
    dropped,    \* the nodes whose Rc<LayoutCacheInner> has been dropped
    seen,       \* node -> slot -> the compute on that slot that no invalidate has reached since
    last,       \* the last operation and what it did
    obs,        \* observer -> ObserverInner
    sig,        \* signal -> SignalInner
    cell,       \* Derived -> its as_observer and value
    scope,      \* the thread-local SCOPE
    tracked,    \* Derived -> the signals its latest and its previous computation read
    kind,       \* node -> the widget that owns the BoxLayout: "Div" or "Label"
    children,   \* Div -> its children, in add_child order
    root,       \* the element Root::new was given, NoNode before
    text,       \* Label -> its text
    changed,    \* Label -> the flag of its Changed
    model,      \* the Signal of the application model: value and trackers
    tracker,    \* the thread-local TRACKER
    select      \* the Select widget: its Changed flag and its cached index

layoutVars == <<cache, attrs, dropped, seen>>
trackVars == <<obs, sig, cell, scope, tracked>>
libVars == <<kind, children, root, text, changed, model, tracker, select>>
vars == <<cache, attrs, dropped, seen, last, obs, sig, cell, scope, tracked,
          kind, children, root, text, changed, model, tracker, select>>

NoCompute == [set |-> FALSE, input |-> ComputeSize(Size(0, 0), 0),
              result |-> ComputedLayout(Rect(0, 0, 0, 0))]
NoOp == [op |-> "none", node |-> NoNode]

(***************************************************************************)
(* layout.rs: LayoutCache                                                  *)
(***************************************************************************)
\* Weak::upgrade of the parent link of n: the parent, or NoNode when there
\* is no link or the parent's cache has been dropped
Upgrade(c, gone, n) ==
    IF c[n].parent # NoNode /\ c[n].parent \notin gone THEN c[n].parent ELSE NoNode

\* the nodes the loop of invalidate visits from n: n and its live ancestors
RECURSIVE Chain(_, _, _, _)
Chain(c, gone, n, visited) ==
    IF n = NoNode \/ n \in visited
    THEN visited
    ELSE Chain(c, gone, Upgrade(c, gone, n), visited \cup {n})

\* the loop of invalidate ends: no node is its own live ancestor
RECURSIVE Terminates(_, _, _, _)
Terminates(c, gone, n, visited) ==
    IF n = NoNode THEN TRUE
    ELSE IF n \in visited THEN FALSE
    ELSE Terminates(c, gone, Upgrade(c, gone, n), visited \cup {n})

\* a loop body of invalidate that puts new, invalid slots in the place of
\* the old ones
InvalidateSlotsRecreated(ci) ==
    [ci EXCEPT !.cached_unknown = NewInvalid,
               !.cached_known = NewInvalid,
               !.cached_final = NewInvalid]

\* a loop body of invalidate that leaves out one of the three slots
InvalidateSlotsButKnown(ci) ==
    [ci EXCEPT !.cached_unknown.is_valid = FALSE,
               !.cached_final.is_valid = FALSE]

\* the three assignments of the loop body of invalidate
InvalidateSlots(ci) ==
    [ci EXCEPT !.cached_unknown.is_valid = FALSE,
               !.cached_known.is_valid = FALSE,
               !.cached_final.is_valid = FALSE]

\* an invalidate that clears every cache instead of walking the chain
InvalidateEveryNode(c, gone, n) ==
    [m \in DOMAIN c |-> InvalidateSlots(c[m])]

\* LayoutCache::invalidate: the caches after the walk from n
InvalidateFrom(c, gone, n) ==
    LET chain == Chain(c, gone, n, {})
    IN  [m \in DOMAIN c |-> IF m \in chain THEN InvalidateSlots(c[m]) ELSE c[m]]

\* a hit test that looks at the validity only
CacheHitWhenValid(slot, input) == slot.is_valid

\* a hit test that compares the stored input the wrong way round
CacheHitOnOtherInput(slot, input) == slot.is_valid /\ slot.with_input # input

\* the test of get_or_update for returning the cached result
CacheHit(slot, input) == slot.is_valid /\ slot.with_input = input

\* LayoutCache::get_or_update: the slot afterwards, f(input) being `computed`
GetOrUpdate(slot, input, computed) ==
    IF CacheHit(slot, input)
    THEN slot
    ELSE [is_valid |-> TRUE, with_input |-> input, cached |-> computed]

\* the content box compute_layout_leaf passes to measure
LeafContentBox(style, input) ==
    LET spacing == SizeRectScale(input.scale_factor,
                       SizeRectAdd(SizeRectAdd(style.margin, style.padding),
                                   SizeRectFrom(style.border_size)))
    IN  SizeSub(Available(input), SumAxes(spacing))

\* the closure compute_layout_leaf hands to get_or_update
LeafLayout(style, input, measured_size) ==
    IF input.tag = "ComputeSize"
    THEN ComputedLayout(FromTopleftSize(0, 0, measured_size))
    ELSE ComputedLayout(FromTopleftSize(input.allocated.x, input.allocated.y, measured_size))

\* BoxLayout::compute_layout_leaf: the LayoutCacheInner afterwards
ComputeLayoutLeaf(ci, style, input, measured_size) ==
    [ci EXCEPT ![SlotOf(input)] =
        GetOrUpdate(ci[SlotOf(input)], input, LeafLayout(style, input, measured_size))]

(***************************************************************************)
(* The operations of BoxLayout                                             *)
(***************************************************************************)
Live == Nodes \ dropped

\* compute_layout_leaf(input, measure) on node n, measure returning `measured`
\* the call before this one, when it was a compute_layout_leaf call too
NoCall == [set |-> FALSE]
PriorCall ==
    IF last.op = "compute_layout_leaf"
    THEN [set |-> TRUE, node |-> last.node, input |-> last.input,
          ran |-> last.ran, was_valid |-> last.before[last.slot].is_valid]
    ELSE NoCall
\* the call before that one, kept when the two gave one slot of one node
\* different inputs
EarlierCall ==
    IF last.op = "compute_layout_leaf"
    THEN IF last.prev.set
         THEN IF /\ last.prev.node = last.node
                 /\ SlotOf(last.prev.input) = last.slot
                 /\ last.prev.input # last.input
              THEN last.prev
              ELSE NoCall
         ELSE NoCall
    ELSE NoCall

ComputeLeaf(n, input, measured) ==
    /\ n \in Live
    /\ LET s == SlotOf(input)
           after == ComputeLayoutLeaf(cache[n], attrs[n], input, measured)
       IN  /\ cache' = [cache EXCEPT ![n] = after]
           /\ last' = [op |-> "compute_layout_leaf", node |-> n, input |-> input,
                       slot |-> s, ran |-> ~CacheHit(cache[n][s], input),
                       content_box |-> LeafContentBox(attrs[n], input),
                       measured |-> measured,
                       result |-> after[s].cached,
                       prior |-> seen[n][s],
                       before |-> cache[n],
                       prev |-> PriorCall, prev2 |-> EarlierCall]
           /\ seen' = [seen EXCEPT ![n][s] =
                          [set |-> TRUE, input |-> input, result |-> after[s].cached]]
    /\ UNCHANGED <<attrs, dropped>>
    /\ UNCHANGED trackVars
    /\ UNCHANGED libVars

\* the inputs of a full pass over one node: measure unconstrained, measure
\* within a finite box, arrange
PassInputs ==
    << ComputeSize(Size(Inf, 12), 1),
       ComputeSize(Size(14, 12), 1),
       FinalLayout(Rect(0, 0, 14, 12), 1) >>

\* three compute_layout_leaf calls on node n, one of each input shape
ComputePass(n, measured) ==
    /\ n \in Live
    /\ LET c1 == ComputeLayoutLeaf(cache[n], attrs[n], PassInputs[1], measured)
           c2 == ComputeLayoutLeaf(c1, attrs[n], PassInputs[2], measured)
           c3 == ComputeLayoutLeaf(c2, attrs[n], PassInputs[3], measured)
       IN  /\ cache' = [cache EXCEPT ![n] = c3]
           /\ seen' = [seen EXCEPT ![n] =
                         [s \in Slots |->
                            [set |-> TRUE, input |-> c3[s].with_input,
                             result |-> c3[s].cached]]]
    /\ last' = [op |-> "compute_pass", node |-> n]
    /\ UNCHANGED <<attrs, dropped>>
    /\ UNCHANGED trackVars
    /\ UNCHANGED libVars

\* the last operation was an invalidate() whose loop does not end: the
\* thread is inside it for good
Hung == last.op = "invalidate" /\ ~last.returned

\* BoxLayout::invalidate on node n; `returned` tells whether the loop ends.
\* When it does not, the caches are those the loop leaves behind while it
\* keeps going round
Invalidate(n) ==
    /\ n \in Live
    /\ ~Hung
    /\ cache' = InvalidateFrom(cache, dropped, n)
    /\ last' = [op |-> "invalidate", node |-> n, before |-> cache,
                returned |-> Terminates(cache, dropped, n, {})]
    /\ seen' = [m \in Nodes |->
                   IF m \in Chain(cache, dropped, n, {})
                   THEN [s \in Slots |-> NoCompute]
                   ELSE seen[m]]
    /\ UNCHANGED <<attrs, dropped>>
    /\ UNCHANGED trackVars
    /\ UNCHANGED libVars

\* BoxLayout::set_parent(p.as_parent()) on node n; its assertion requires
\* that n has no link yet
SetParent(n, p) ==
    /\ n \in Live /\ p \in Live
    /\ cache[n].parent = NoNode
    /\ cache' = [cache EXCEPT ![n].parent = p]
    /\ last' = [op |-> "set_parent", node |-> n]
    /\ UNCHANGED <<attrs, dropped, seen>>
    /\ UNCHANGED trackVars
    /\ UNCHANGED libVars

\* BoxLayout::remove_parent on node n
RemoveParent(n) ==
    /\ n \in Live
    /\ cache[n].parent # NoNode
    /\ cache' = [cache EXCEPT ![n].parent = NoNode]
    /\ last' = [op |-> "remove_parent", node |-> n]
    /\ UNCHANGED <<attrs, dropped, seen>>
    /\ UNCHANGED trackVars
    /\ UNCHANGED libVars

\* the BoxLayout of node n is dropped with the widget that owns it
Drop(n) ==
    /\ n \in Live
    /\ dropped' = dropped \cup {n}
    /\ last' = [op |-> "drop", node |-> n]
    /\ UNCHANGED <<cache, attrs, seen>>
    /\ UNCHANGED trackVars
    /\ UNCHANGED libVars

InitLayout ==
    /\ cache = [n \in Nodes |-> NewLayoutCache]
    /\ attrs = [n \in Nodes |-> IF kind[n] = "Div" THEN DivStyle ELSE LabelStyle]
    /\ dropped = {}
    /\ last = NoOp
    /\ seen = [n \in Nodes |-> [s \in Slots |-> NoCompute]]

(***************************************************************************)
(* tracking.rs: the dependency graph                                       *)
(*                                                                         *)
(* An Rc<ObserverInner> is an identifier of ObsIds.  A Weak<ObserverInner> *)
(* is the identifier while the observer is alive; when the last Rc is      *)
(* dropped every Weak to it is replaced by NoObs, which never upgrades, so *)
(* that the identifier can name a later allocation.                        *)
(***************************************************************************)
\* number of ObserverInner allocations that can be alive at once
NumObs == 11
\* longest dependents list an operation may leave behind
MaxDeps == 3

Signals == {"A", "C"}
Cells == {"D1", "D2"}
\* the cells of the Select widget: its selector and its update_cache
SelectCells == {"selector", "update_cache"}
SignalValues == {0, 1}
ObsIds == 1..NumObs
\* a Weak that does not upgrade; Option::None of SCOPE
NoObs == 0
\* V::default() of the cached value of a Derived
DefaultValue == 0

Clean == "Clean"
Dirty == "Dirty"

\* an identifier no allocation uses
NoObserver == [live |-> FALSE, is_dirty |-> Clean, dependents |-> <<>>]
\* ObserverInner::new(starting)
NewObserverInner(starting) == [live |-> TRUE, is_dirty |-> starting, dependents |-> <<>>]

\* the ObservableInner of a signal, and the as_observable of an observer
OfSignal(s) == [kind |-> "signal", sig |-> s, ob |-> NoObs]
OfObserver(o) == [kind |-> "observer", sig |-> "-", ob |-> o]

DependentsOf(t, x) ==
    IF x.kind = "signal" THEN t.sig[x.sig].dependents ELSE t.obs[x.ob].dependents

\* Weak::upgrade
UpgradeObserver(ob, d) == IF d # NoObs /\ ob[d].live THEN d ELSE NoObs

\* the address of a new Rc<ObserverInner>: the first identifier not in use
FreshObserver(ob) ==
    CHOOSE o \in ObsIds : ~ob[o].live /\ \A p \in ObsIds : p < o => ob[p].live

Top(stack) == IF stack = <<>> THEN NoObs ELSE stack[Len(stack)]

(***************************************************************************)
(* What the claims need to know about an operation, recorded next to the   *)
(* program state while the operation runs: the register() calls, the       *)
(* run_and_track calls still on the call stack, the scope each of them     *)
(* left behind, the compute closures that ran and the signals they read.   *)
(***************************************************************************)
StartOp(o, s, c, sc) ==
    [obs |-> o, sig |-> s, cell |-> c, scope |-> sc,
     regs |-> <<>>, stack |-> <<>>, exits |-> <<>>, computes |-> <<>>, reads |-> {},
     writes |-> {}, updates |-> <<>>]

\* the graph of t is that of `before` but for entries appended to the
\* dependents list of x
RestSame(t, x, before) ==
    /\ \A s \in DOMAIN t.sig :
          /\ t.sig[s].value = before.sig[s].value
          /\ IF x = OfSignal(s)
             THEN SubSeq(t.sig[s].dependents, 1, Len(before.sig[s].dependents))
                     = before.sig[s].dependents
             ELSE t.sig[s].dependents = before.sig[s].dependents
    /\ \A o \in ObsIds :
          /\ t.obs[o].live = before.obs[o].live
          /\ t.obs[o].is_dirty = before.obs[o].is_dirty
          /\ IF x = OfObserver(o)
             THEN SubSeq(t.obs[o].dependents, 1, Len(before.obs[o].dependents))
                     = before.obs[o].dependents
             ELSE t.obs[o].dependents = before.obs[o].dependents

NoteRegister(t, x, before) ==
    [t EXCEPT !.regs = Append(@,
        [on |-> x, inner |-> Top(t.stack),
         added |-> SubSeq(DependentsOf(t, x), Len(DependentsOf(before, x)) + 1,
                          Len(DependentsOf(t, x))),
         rest_same |-> RestSame(t, x, before)])]
NoteEnter(t) == [t EXCEPT !.stack = Append(@, t.scope)]
NoteExit(t) ==
    LET rest == SubSeq(t.stack, 1, Len(t.stack) - 1)
    IN  [t EXCEPT !.stack = rest,
                  !.exits = Append(@, [scope |-> t.scope, outer |-> Top(rest)])]
NoteCompute(t, d) == [t EXCEPT !.computes = Append(@, d)]
NoteRead(t, d, s) == [t EXCEPT !.reads = @ \cup {<<d, s>>}]
\* Widget::update has been called on widget w
NoteUpdate(t, w) == [t EXCEPT !.updates = Append(@, w)]
\* the closure of cell d has written signal s; `marked` tells whether the
\* observer of the running run_and_track is Dirty after the write
NoteWrite(t, d, s) ==
    [t EXCEPT !.writes = @ \cup {[cell |-> d, signal |-> s,
                                  marked |-> t.obs[t.scope].is_dirty = Dirty]}]

(***************************************************************************)
(* ObservableInner                                                         *)
(***************************************************************************)
\* a register that pushes the Weak twice
RegisterTwice(t, x) ==
    IF t.scope # NoObs
    THEN IF x.kind = "signal"
         THEN [t EXCEPT !.sig[x.sig].dependents = Append(Append(@, t.scope), t.scope)]
         ELSE [t EXCEPT !.obs[x.ob].dependents = Append(Append(@, t.scope), t.scope)]
    ELSE t

\* ObservableInner::register
Register(t, x) ==
    IF t.scope # NoObs
    THEN IF x.kind = "signal"
         THEN [t EXCEPT !.sig[x.sig].dependents = Append(@, t.scope)]
         ELSE [t EXCEPT !.obs[x.ob].dependents = Append(@, t.scope)]
    ELSE t

RECURSIVE MarkLoop(_, _, _, _)
MarkLoop(ob, to_visit, deps, i) ==
    IF i > Len(deps)
    THEN [obs |-> ob, to_visit |-> to_visit]
    ELSE LET observer == UpgradeObserver(ob, deps[i])
         IN  IF observer # NoObs /\ ob[observer].is_dirty = Clean
             THEN MarkLoop([ob EXCEPT ![observer].is_dirty = Dirty],
                           Append(to_visit, observer), deps, i + 1)
             ELSE MarkLoop(ob, to_visit, deps, i + 1)

\* a mark_and_push_children that marks the dependents and forgets to queue them
MarkWithoutPush(ob, to_visit, deps) ==
    [obs |-> MarkLoop(ob, to_visit, deps, 1).obs, to_visit |-> to_visit]

\* a mark_and_push_children that does not test the flag: it marks and
\* queues every dependent that upgrades
RECURSIVE MarkEveryLoop(_, _, _, _)
MarkEveryLoop(ob, to_visit, deps, i) ==
    IF i > Len(deps)
    THEN [obs |-> ob, to_visit |-> to_visit]
    ELSE LET observer == UpgradeObserver(ob, deps[i])
         IN  IF observer # NoObs
             THEN MarkEveryLoop([ob EXCEPT ![observer].is_dirty = Dirty],
                                Append(to_visit, observer), deps, i + 1)
             ELSE MarkEveryLoop(ob, to_visit, deps, i + 1)

MarkAndPushEvery(ob, to_visit, deps) == MarkEveryLoop(ob, to_visit, deps, 1)

\* mark_and_push_children of trigger
MarkAndPushChildren(ob, to_visit, deps) == MarkLoop(ob, to_visit, deps, 1)

\* the while loop of trigger
RECURSIVE TriggerLoop(_, _)
TriggerLoop(ob, to_visit) ==
    IF to_visit = <<>>
    THEN ob
    ELSE LET next == to_visit[Len(to_visit)]
             r == MarkAndPushChildren(ob, SubSeq(to_visit, 1, Len(to_visit) - 1),
                                      ob[next].dependents)
         IN  TriggerLoop(r.obs, r.to_visit)

\* ObservableInner::trigger
Trigger(t, x) ==
    LET r == MarkAndPushChildren(t.obs, <<>>, DependentsOf(t, x))
    IN  [t EXCEPT !.obs = TriggerLoop(r.obs, r.to_visit)]

(***************************************************************************)
(* ObserverInner                                                           *)
(***************************************************************************)
\* the last Rc of observer o is dropped: its dependents list goes with it
\* and no Weak to it upgrades again
Forget(deps, o) == [i \in 1..Len(deps) |-> IF deps[i] = o THEN NoObs ELSE deps[i]]
DropObserver(t, o) ==
    [t EXCEPT !.obs = [p \in ObsIds |->
                          IF p = o THEN NoObserver
                          ELSE [t.obs[p] EXCEPT !.dependents = Forget(@, o)]],
              !.sig = [s \in DOMAIN t.sig |-> [t.sig[s] EXCEPT !.dependents = Forget(@, o)]]]

\* the only element of a set of one element
TheOne(S) == CHOOSE x \in S : TRUE

\* run_and_track up to the call of f: the new observer becomes the scope
RunAndTrackEnter(t) ==
    LET observer == FreshObserver(t.obs)
    IN  [t EXCEPT !.obs[observer] = NewObserverInner(Clean), !.scope = observer]

\* a run_and_track that clears the scope instead of restoring the saved one
RunAndTrackExitToNone(t, observer, old_scope) ==
    [t EXCEPT !.scope = NoObs, !.obs[observer].is_dirty = Clean]

\* a run_and_track that leaves the flag of the observer as f left it
RunAndTrackExitKeepsFlag(t, observer, old_scope) == [t EXCEPT !.scope = old_scope]

\* run_and_track after f has returned
RunAndTrackExit(t, observer, old_scope) ==
    [t EXCEPT !.scope = old_scope, !.obs[observer].is_dirty = Clean]

\* the closure `compute` of Derived d, called on the model
RECURSIVE Compute(_, _)

\* the closures Button::interactions and Div::interactions hand to
\* maybe_update
RECURSIVE InteractionsClosure(_, _)

\* ObserverInner::run_and_track(|| (self.compute)(model)) of Derived d
RunAndTrack(t, d) ==
    TheOne({ TheOne({ [t |-> NoteExit(RunAndTrackExit(r.t, entered.scope, t.scope)),
                       observer |-> entered.scope, value |-> r.value] :
                        r \in { Compute(entered, d) } }) :
               entered \in { NoteEnter(RunAndTrackEnter(t)) } })

\* a mark_dirty that triggers whatever the old flag was
MarkDirtyAndTrigger(t, o) == Trigger([t EXCEPT !.obs[o].is_dirty = Dirty], OfObserver(o))

\* ObserverInner::mark_dirty
MarkDirty(t, o) ==
    LET old_value == t.obs[o].is_dirty
        t1 == [t EXCEPT !.obs[o].is_dirty = Dirty]
    IN  IF old_value = Clean THEN Trigger(t1, OfObserver(o)) ELSE t1

(***************************************************************************)
(* RwSignal, Derived                                                       *)
(***************************************************************************)
\* ReadableSignal::get of a signal
SignalGet(t, s) ==
    [t |-> NoteRegister(Register(t, OfSignal(s)), OfSignal(s), t),
     value |-> t.sig[s].value]

\* ReadableSignal::track of a signal
SignalTrack(t, s) == NoteRegister(Register(t, OfSignal(s)), OfSignal(s), t)

\* RwSignal::with(f): f is called on the value, then the read is registered
RwSignalWith(t, s) ==
    [t |-> NoteRegister(Register(t, OfSignal(s)), OfSignal(s), t),
     value |-> t.sig[s].value]

\* an update that stores the value and does not trigger
RwSignalSetUntracked(t, s, v) == [t EXCEPT !.sig[s].value = v]

\* RwSignal::update(|x| *x = v)
RwSignalUpdate(t, s, v) == Trigger([t EXCEPT !.sig[s].value = v], OfSignal(s))

\* Derived::new_with_initial
NewDerived(t, d) ==
    LET observer == FreshObserver(t.obs)
    IN  [t EXCEPT !.obs[observer] = NewObserverInner(Dirty),
                  !.cell[d] = [as_observer |-> observer, value |-> DefaultValue]]

\* a test that always asks for a recomputation
IsDirtyAlways(t, d) == TRUE

\* the test of Derived::maybe_update
IsDirty(t, d) == t.obs[t.cell[d].as_observer].is_dirty = Dirty

\* an assignment that keeps the edges of the old observer: every Weak to
\* the old observer now names the new one
StoreObserverInPlace(t, d, observer) ==
    LET old == t.cell[d].as_observer
        Move(deps) == [i \in 1..Len(deps) |-> IF deps[i] = old THEN observer ELSE deps[i]]
        t1 == [t EXCEPT !.cell[d].as_observer = observer,
                        !.obs = [p \in ObsIds |-> [t.obs[p] EXCEPT !.dependents = Move(@)]],
                        !.sig = [s \in DOMAIN t.sig |-> [t.sig[s] EXCEPT !.dependents = Move(@)]]]
    IN  DropObserver(t1, old)

\* *self.as_observer.borrow_mut() = observer: the old observer is dropped
StoreObserver(t, d, observer) ==
    DropObserver([t EXCEPT !.cell[d].as_observer = observer], t.cell[d].as_observer)

\* Derived::maybe_update
DerivedMaybeUpdate(t, d) ==
    IF IsDirty(t, d)
    THEN TheOne({ [t |-> StoreObserver([r.t EXCEPT !.cell[d].value = r.value], d, r.observer),
                   returned |-> TRUE] :
                    r \in { RunAndTrack(MarkDirty(t, t.cell[d].as_observer), d) } })
    ELSE [t |-> t, returned |-> FALSE]

\* ReadableSignal::get of a Derived
DerivedGet(t, d) ==
    LET x == OfObserver(t.cell[d].as_observer)
    IN  [t |-> NoteRegister(Register(t, x), x, t), value |-> t.cell[d].value]

(***************************************************************************)
(* The cells of the model.  D1 reads signal A only inside a branch that    *)
(* signal C selects.  D2 reads A, brings D1 up to date when A is 1, and    *)
(* reads D1.                                                               *)
(***************************************************************************)
\* what the closure of D1 returns for the signal values a and c
ValueD1(a, c) == IF c = 1 THEN a ELSE 2

ComputeD1(t) ==
    LET c == SignalGet(NoteRead(NoteCompute(t, "D1"), "D1", "C"), "C")
    IN  IF c.value = 1
        THEN LET a == SignalGet(NoteRead(c.t, "D1", "A"), "A")
             IN  [t |-> a.t, value |-> ValueD1(a.value, c.value)]
        ELSE [t |-> c.t, value |-> ValueD1(0, c.value)]

ComputeD2(t) ==
    TheOne({ TheOne({ [t |-> g.t, value |-> 10 * a.value + g.value] :
                        g \in { DerivedGet(IF a.value = 1
                                           THEN DerivedMaybeUpdate(a.t, "D1").t
                                           ELSE a.t, "D1") } }) :
               a \in { SignalGet(NoteRead(NoteCompute(t, "D2"), "D2", "A"), "A") } })

(***************************************************************************)
(* widgets/select.rs, widgets/label.rs: the Select widget over two Labels. *)
(* The selector returns the value of signal A as the index; the text of    *)
(* the Label of option 0 is the cell D1, the text of option 1 the cell D2. *)
(***************************************************************************)
\* Computed::maybe_update(f), f being the closure of cell d
ComputedMaybeUpdate(t, d) ==
    IF IsDirty(t, d)
    THEN TheOne({ StoreObserver([r.t EXCEPT !.cell[d].value = r.value], d, r.observer) :
                    r \in { RunAndTrack(MarkDirty(t, t.cell[d].as_observer), d) } })
    ELSE t

\* a track that registers nothing
TrackUnregistered(t, d) == t

\* ReadableSignal::track of a Derived or a Computed
Track(t, d) ==
    LET x == OfObserver(t.cell[d].as_observer)
    IN  NoteRegister(Register(t, x), x, t)

\* the text cell of the Label of each option
OptionText(index) == IF index = 0 THEN "D1" ELSE "D2"

\* Label::update
LabelUpdate(t, d) == Track(DerivedMaybeUpdate(t, d).t, d)

\* the selector closure of the Select
ComputeSelector(t) ==
    LET a == SignalGet(NoteRead(NoteCompute(t, "selector"), "selector", "A"), "A")
    IN  [t |-> a.t, value |-> a.value]

\* the closure Select::update hands to update_cache.maybe_update
ComputeUpdateCache(t) ==
    TheOne({ [t |-> LabelUpdate(t1, OptionText(t1.cell["selector"].value)), value |-> 0] :
               t1 \in { DerivedMaybeUpdate(NoteCompute(t, "update_cache"), "selector").t } })

\* Select::update
SelectUpdate(t) == Track(ComputedMaybeUpdate(t, "update_cache"), "update_cache")

(***************************************************************************)
(* Two cells whose closures write a signal they have read: the Derived     *)
(* "writer" reads A and stores 1 in it when it is 0; the Computed          *)
(* "rewriter" reads C and A and stores the value of A in C when they       *)
(* differ.                                                                 *)
(***************************************************************************)
WriterCells == {"writer", "rewriter"}

ComputeWriter(t) ==
    TheOne({ [t |-> IF a.value = 0
                    THEN TheOne({ NoteWrite(w, "writer", "A") :
                                    w \in { RwSignalUpdate(a.t, "A", 1) } })
                    ELSE a.t,
              value |-> a.value] :
               a \in { SignalGet(NoteRead(NoteCompute(t, "writer"), "writer", "A"), "A") } })

ComputeRewriter(t) ==
    TheOne({ TheOne({ [t |-> IF c.value # a.value
                             THEN TheOne({ NoteWrite(w, "rewriter", "C") :
                                             w \in { RwSignalUpdate(a.t, "C", a.value) } })
                             ELSE a.t,
                       value |-> c.value] :
                        a \in { SignalGet(NoteRead(c.t, "rewriter", "A"), "A") } }) :
               c \in { SignalGet(NoteRead(NoteCompute(t, "rewriter"), "rewriter", "C"), "C") } })

(***************************************************************************)
(* widgets/div.rs, widgets/label.rs: update.  The Div "outer" holds the    *)
(* Div "inner" and the Label "title"; "inner" holds the Label "body".  The *)
(* text of "body" is the cell D1, the text of "title" the cell "title",    *)
(* which reads signal A.  The TrackedVec of each Div is a signal.          *)
(***************************************************************************)
UpdateCaches == {"outer.update_cache", "inner.update_cache"}
TextCells == {"D1", "title"}
ChildrenSignals == {"outer.children", "inner.children"}

ComputeTitle(t) ==
    LET a == SignalGet(NoteRead(NoteCompute(t, "title"), "title", "A"), "A")
    IN  [t |-> a.t, value |-> a.value]

Compute(t, d) ==
    IF d = "D1" THEN ComputeD1(t)
    ELSE IF d = "title" THEN ComputeTitle(t)
    ELSE IF d = "writer" THEN ComputeWriter(t)
    ELSE IF d = "rewriter" THEN ComputeRewriter(t)
    ELSE IF d = "D2" THEN ComputeD2(t)
    ELSE IF d = "selector" THEN ComputeSelector(t)
    ELSE IF d = "update_cache" THEN ComputeUpdateCache(t)
    ELSE InteractionsClosure(t, d)

(***************************************************************************)
(* The operations on the cells                                             *)
(***************************************************************************)
Tracking == StartOp(obs, sig, cell, scope)

Commit(t) ==
    /\ obs' = t.obs
    /\ sig' = t.sig
    /\ cell' = t.cell
    /\ scope' = t.scope

\* no dependents list is longer than MaxDeps
Fits(t) ==
    /\ \A s \in DOMAIN t.sig : Len(t.sig[s].dependents) <= MaxDeps
    /\ \A o \in ObsIds : Len(t.obs[o].dependents) <= MaxDeps

NeverComputed == [fresh |-> TRUE, latest |-> {}, previous |-> {}]

\* signal s is written through RwSignal::update
Update(s, v) ==
    /\ \E t \in {RwSignalUpdate(Tracking, s, v)} : Commit(t)
    /\ last' = [op |-> "update", signal |-> s, before |-> obs]
    /\ UNCHANGED tracked
    /\ UNCHANGED layoutVars
    /\ UNCHANGED libVars

\* Derived::maybe_update(model) is called on cell d from outside any scope
MaybeUpdate(d) ==
    \E r \in {DerivedMaybeUpdate(Tracking, d)} :
        /\ Fits(r.t)
        /\ Commit(r.t)
        /\ last' = [op |-> "maybe_update", cell |-> d,
                    was_dirty |-> obs[cell[d].as_observer].is_dirty = Dirty,
                    fresh |-> tracked[d].fresh,
                    before |-> cell[d],
                    returned |-> r.returned,
                    computes |-> r.t.computes,
                    regs |-> r.t.regs,
                    exits |-> r.t.exits]
        /\ tracked' = [c \in Cells |->
                          IF \E i \in 1..Len(r.t.computes) : r.t.computes[i] = c
                          THEN [fresh |-> FALSE,
                                latest |-> {s \in Signals : <<c, s>> \in r.t.reads},
                                previous |-> tracked[c].latest]
                          ELSE IF c = d THEN [tracked[c] EXCEPT !.fresh = FALSE]
                          ELSE tracked[c]]
        /\ UNCHANGED layoutVars
        /\ UNCHANGED libVars

\* cell d is dropped and constructed again with Derived::new_with_initial
Recreate(d) ==
    /\ \E t \in {NewDerived(DropObserver(Tracking, cell[d].as_observer), d)} : Commit(t)
    /\ last' = [op |-> "new", cell |-> d]
    /\ tracked' = [tracked EXCEPT ![d] = NeverComputed]
    /\ UNCHANGED layoutVars
    /\ UNCHANGED libVars

\* Select::update(model) is called on the Select from outside any scope
UpdateSelect ==
    \E t \in {SelectUpdate(Tracking)} :
        /\ Fits(t)
        /\ Commit(t)
        /\ last' = [op |-> "select_update",
                    after_write |-> last.op = "update" /\ last.signal = "A",
                    had_read |-> "A" \in tracked["selector"].latest,
                    was_dirty |-> IsDirty(Tracking, "update_cache"),
                    computes |-> t.computes]
        /\ tracked' = [c \in DOMAIN tracked |->
                          IF \E i \in 1..Len(t.computes) : t.computes[i] = c
                          THEN [fresh |-> FALSE,
                                latest |-> {s \in Signals : <<c, s>> \in t.reads},
                                previous |-> tracked[c].latest]
                          ELSE tracked[c]]
        /\ UNCHANGED layoutVars
        /\ UNCHANGED libVars

\* Select::new over two Labels: four cells, each with a Dirty observer
InitSelectTrack ==
    /\ obs = [o \in ObsIds |->
                IF o \in 1..4 THEN NewObserverInner(Dirty) ELSE NoObserver]
    /\ sig = [s \in Signals |-> [value |-> 0, dependents |-> <<>>]]
    /\ cell = [d \in Cells \cup SelectCells |->
                 [as_observer |-> IF d = "D1" THEN 1 ELSE IF d = "D2" THEN 2
                                  ELSE IF d = "selector" THEN 3 ELSE 4,
                  value |-> DefaultValue]]
    /\ scope = NoObs
    /\ tracked = [d \in Cells \cup SelectCells |-> NeverComputed]

InitTrack ==
    /\ obs = [o \in ObsIds |->
                IF o \in {1, 2} THEN NewObserverInner(Dirty) ELSE NoObserver]
    /\ sig = [s \in Signals |-> [value |-> 0, dependents |-> <<>>]]
    /\ cell = [d \in Cells |->
                 [as_observer |-> IF d = "D1" THEN 1 ELSE 2, value |-> DefaultValue]]
    /\ scope = NoObs
    /\ tracked = [d \in Cells |-> NeverComputed]

\* maybe_update is called on a cell whose closure writes, from outside any
\* scope: Derived::maybe_update on "writer", Computed::maybe_update on
\* "rewriter"
WriterMaybeUpdate(d) ==
    \E t \in { IF d = "writer" THEN DerivedMaybeUpdate(Tracking, d).t
               ELSE ComputedMaybeUpdate(Tracking, d) } :
        /\ Fits(t)
        /\ Commit(t)
        /\ last' = [op |-> "writer_maybe_update", cell |-> d,
                    returned |-> IsDirty(Tracking, d),
                    before |-> cell[d],
                    computes |-> t.computes,
                    writes |-> t.writes]
        /\ UNCHANGED tracked
        /\ UNCHANGED layoutVars
        /\ UNCHANGED libVars

\* the two cells of the model and the two whose closures write, each with
\* the Dirty observer of its constructor
InitWriterTrack ==
    /\ obs = [o \in ObsIds |->
                IF o \in 1..4 THEN NewObserverInner(Dirty) ELSE NoObserver]
    /\ sig = [s \in Signals |-> [value |-> 0, dependents |-> <<>>]]
    /\ cell = [d \in Cells \cup WriterCells |->
                 [as_observer |-> IF d = "D1" THEN 1 ELSE IF d = "D2" THEN 2
                                  ELSE IF d = "writer" THEN 3 ELSE 4,
                  value |-> DefaultValue]]
    /\ scope = NoObs
    /\ tracked = [d \in Cells |-> NeverComputed]


(***************************************************************************)
(* tracking.rs: trigger on an arbitrary dependency graph                   *)
(***************************************************************************)
\* the observers of the graph
GraphObs == {1, 2, 3}
\* most Weak references the dependents lists of the graph hold together
MaxEdges == 3

\* the while loop of trigger, with the observers it pushes noted in
\* `pushed`; it is followed for at most `fuel` iterations
RECURSIVE TriggerSteps(_, _, _, _)
TriggerSteps(ob, to_visit, pushed, fuel) ==
    IF to_visit = <<>>
    THEN [obs |-> ob, pushed |-> pushed, returned |-> TRUE]
    ELSE IF fuel = 0
    THEN [obs |-> ob, pushed |-> pushed, returned |-> FALSE]
    ELSE LET next == to_visit[Len(to_visit)]
             rest == SubSeq(to_visit, 1, Len(to_visit) - 1)
             r == MarkAndPushChildren(ob, rest, ob[next].dependents)
         IN  TriggerSteps(r.obs, r.to_visit,
                          pushed \o SubSeq(r.to_visit, Len(rest) + 1, Len(r.to_visit)),
                          fuel - 1)

\* ObservableInner::trigger on observable x, with what it pushed
TriggerNoted(t, x) ==
    LET r == MarkAndPushChildren(t.obs, <<>>, DependentsOf(t, x))
    IN  TriggerSteps(r.obs, r.to_visit, r.to_visit, NumObs)

\* the observables of the graph: signal A and the as_observable of each
\* observer
GraphObservables == {OfSignal("A")} \cup { OfObserver(o) : o \in GraphObs }

\* the Weak references all dependents lists hold
Edges(t) ==
    Len(t.sig["A"].dependents)
        + Len(t.obs[1].dependents) + Len(t.obs[2].dependents) + Len(t.obs[3].dependents)

\* observable x is read in the scope of observer o: register pushes a Weak
\* to o on the dependents of x
Attach(x, o) ==
    /\ Edges(Tracking) < MaxEdges
    /\ \E t \in { Register([Tracking EXCEPT !.scope = o], x) } :
          /\ obs' = t.obs
          /\ sig' = t.sig
    /\ last' = [op |-> "register", on |-> x, scope |-> o]
    /\ UNCHANGED <<cell, scope, tracked>>
    /\ UNCHANGED layoutVars
    /\ UNCHANGED libVars

\* observer o is left Clean, as run_and_track and Computed leave it
Settle(o) ==
    /\ obs[o].is_dirty = Dirty
    /\ obs' = [obs EXCEPT ![o].is_dirty = Clean]
    /\ last' = [op |-> "clean", observer |-> o]
    /\ UNCHANGED <<sig, cell, scope, tracked>>
    /\ UNCHANGED layoutVars
    /\ UNCHANGED libVars

\* trigger() on observable x
TriggerFrom(x) ==
    /\ \E r \in { TriggerNoted(Tracking, x) } :
          /\ obs' = r.obs
          /\ last' = [op |-> "trigger", on |-> x, before |-> obs,
                      pushed |-> r.pushed, returned |-> r.returned]
    /\ UNCHANGED <<sig, cell, scope, tracked>>
    /\ UNCHANGED layoutVars
    /\ UNCHANGED libVars

\* three Clean observers nothing depends on yet
InitGraph ==
    /\ obs = [o \in ObsIds |->
                IF o \in GraphObs THEN NewObserverInner(Clean) ELSE NoObserver]
    /\ sig = [s \in Signals |-> [value |-> 0, dependents |-> <<>>]]
    /\ cell = [d \in Cells |->
                 [as_observer |-> IF d = "D1" THEN 1 ELSE 2, value |-> DefaultValue]]
    /\ scope = NoObs
    /\ tracked = [d \in Cells |-> NeverComputed]

(***************************************************************************)
(* Reads made by the application, outside every run_and_track              *)
(***************************************************************************)
\* the ways of reading a signal and a cell
ReadsOf(c) == IF c \in Signals THEN {"get", "track", "with"} ELSE {"get", "track"}

\* the read `how` of signal or cell c
ReadCell(t, how, c) ==
    IF c \in Signals
    THEN IF how = "get" THEN SignalGet(t, c).t
         ELSE IF how = "with" THEN RwSignalWith(t, c).t
         ELSE SignalTrack(t, c)
    ELSE IF how = "get" THEN DerivedGet(t, c).t ELSE Track(t, c)

\* the application reads signal or cell c
Read(how, c) ==
    /\ how \in ReadsOf(c)
    /\ \E t \in { ReadCell(Tracking, how, c) } :
          /\ Commit(t)
          /\ last' = [op |-> "read", how |-> how, on |-> c,
                      in_scope |-> scope # NoObs,
                      before |-> [obs |-> obs, sig |-> sig],
                      regs |-> t.regs]
    /\ UNCHANGED tracked
    /\ UNCHANGED layoutVars
    /\ UNCHANGED libVars

\* Computed::invalidate on the cell whose as_observer is o
ComputedInvalidate(o) ==
    /\ \E t \in { MarkDirty(Tracking, o) } : obs' = t.obs
    /\ last' = [op |-> "mark_dirty", observer |-> o, before |-> obs]
    /\ UNCHANGED <<sig, cell, scope, tracked>>
    /\ UNCHANGED layoutVars
    /\ UNCHANGED libVars
(***************************************************************************)
(* layout.rs, lib.rs: layout of the widget tree                            *)
(*                                                                         *)
(* A node is the BoxLayout of one widget, a Div or a Label.  A layout call *)
(* works on w = [c, text, measured, panicked, log]: the caches, the texts  *)
(* of the Labels, the Labels whose measure closure the call has run,       *)
(* whether an assertion has failed, and the compute_layout calls made so   *)
(* far, in order.                                                          *)
(***************************************************************************)
\* the one element of a set of one element
Only(S) == CHOOSE x \in S : TRUE

\* the measure closure of Label::compute_layout: the text laid out on one
\* line, a glyph being as wide and as high as the scale factor
MeasureLabel(w, n, available_size, scale_factor) ==
    Size(scale_factor * w.text[n], scale_factor)

RECURSIVE WidgetComputeLayout(_, _, _)

\* one iteration of the first loop of compute_layout_with_children, r being
\* what compute_layout of the child returned
MeasureStep(acc, child, main_axis, r) ==
    LET child_main_sizing ==
            IF main_axis = "Vertical" THEN attrs[child].height ELSE attrs[child].width
        child_cross_sizing ==
            IF main_axis = "Vertical" THEN attrs[child].width ELSE attrs[child].height
        child_main_space == SizeAxis(RectSize(r.result.margin_box), main_axis)
        child_cross_space == SizeAxis(RectSize(r.result.margin_box), Cross(main_axis))
        expands == child_main_sizing.tag = "Expand"
    IN  [w |-> r.w,
         sizes |-> Append(acc.sizes,
                     [main_sizing |-> child_main_sizing,
                      cross_sizing |-> child_cross_sizing,
                      size |-> SizeFromAxes(main_axis, child_main_space, child_cross_space)]),
         total_main_space |->
             IF expands THEN acc.total_main_space
             ELSE acc.total_main_space + child_main_space,
         max_cross_space |-> FMax(acc.max_cross_space, child_cross_space),
         total_expand_factor |->
             IF expands THEN acc.total_expand_factor + 1 ELSE acc.total_expand_factor,
         max_space_per_expand |->
             IF expands THEN FMax(acc.max_space_per_expand, child_main_space)
             ELSE acc.max_space_per_expand]

\* the first loop of compute_layout_with_children: every child is measured
\* with an unbounded main axis
RECURSIVE MeasureChildren(_, _, _, _, _)
MeasureChildren(acc, kids, i, main_axis, child_input) ==
    IF i > Len(kids)
    THEN acc
    ELSE Only({ MeasureChildren(next, kids, i + 1, main_axis, child_input) :
                  next \in { MeasureStep(acc, kids[i], main_axis, r) :
                      r \in { WidgetComputeLayout(acc.w, kids[i], child_input) } } })

\* a second loop body that leaves the cursor where it is
ChildAllocationCursorStays(entry, curr, ctx) ==
    LET cross_axis == Cross(ctx.main_axis)
        main_amount ==
            IF entry.main_sizing.tag = "Expand" THEN ctx.space_per_expand
            ELSE SizeAxis(entry.size, ctx.main_axis)
        cross_amount ==
            IF entry.cross_sizing.tag = "Expand"
            THEN SizeAxis(RectSize(ctx.content_box), cross_axis)
            ELSE SizeAxis(entry.size, cross_axis)
        cross_start ==
            (IF cross_axis = "Horizontal"
             THEN RectLeft(ctx.content_box) ELSE RectTop(ctx.content_box))
            + (CASE ctx.cross_justify = "Min" -> 0
                 [] ctx.cross_justify = "Max" ->
                        SizeAxis(ctx.content_size, cross_axis) - cross_amount
                 [] ctx.cross_justify = "Center" ->
                        (SizeAxis(ctx.content_size, cross_axis) - cross_amount) \div 2)
        positive == ctx.main_direction = "Positive"
    IN  [allocated |->
            IF ctx.main_axis = "Horizontal"
            THEN IF positive
                 THEN RectFromLrtb(curr, curr + main_amount,
                                   cross_start, cross_start + cross_amount)
                 ELSE RectFromLrtb(curr - main_amount, curr,
                                   cross_start, cross_start + cross_amount)
            ELSE IF positive
                 THEN RectFromLrtb(cross_start, cross_start + cross_amount,
                                   curr, curr + main_amount)
                 ELSE RectFromLrtb(cross_start, cross_start + cross_amount,
                                   curr - main_amount, curr),
         curr |-> curr]

\* the rectangle the second loop allocates to a child when the cursor is
\* at curr, and the cursor after it
ChildAllocation(entry, curr, ctx) ==
    LET cross_axis == Cross(ctx.main_axis)
        main_amount ==
            IF entry.main_sizing.tag = "Expand" THEN ctx.space_per_expand
            ELSE SizeAxis(entry.size, ctx.main_axis)
        cross_amount ==
            IF entry.cross_sizing.tag = "Expand"
            THEN SizeAxis(RectSize(ctx.content_box), cross_axis)
            ELSE SizeAxis(entry.size, cross_axis)
        cross_start ==
            (IF cross_axis = "Horizontal"
             THEN RectLeft(ctx.content_box) ELSE RectTop(ctx.content_box))
            + (CASE ctx.cross_justify = "Min" -> 0
                 [] ctx.cross_justify = "Max" ->
                        SizeAxis(ctx.content_size, cross_axis) - cross_amount
                 [] ctx.cross_justify = "Center" ->
                        (SizeAxis(ctx.content_size, cross_axis) - cross_amount) \div 2)
        positive == ctx.main_direction = "Positive"
    IN  [allocated |->
            IF ctx.main_axis = "Horizontal"
            THEN IF positive
                 THEN RectFromLrtb(curr, curr + main_amount,
                                   cross_start, cross_start + cross_amount)
                 ELSE RectFromLrtb(curr - main_amount, curr,
                                   cross_start, cross_start + cross_amount)
            ELSE IF positive
                 THEN RectFromLrtb(cross_start, cross_start + cross_amount,
                                   curr, curr + main_amount)
                 ELSE RectFromLrtb(cross_start, cross_start + cross_amount,
                                   curr - main_amount, curr),
         curr |-> IF positive THEN curr + main_amount ELSE curr - main_amount]

\* a second loop that calls no child
ArrangeNothing(w, kids, sizes, i, curr, ctx) == w

\* the second loop of compute_layout_with_children: every child is given
\* its final rectangle
RECURSIVE ArrangeChildren(_, _, _, _, _, _)
ArrangeChildren(w, kids, sizes, i, curr, ctx) ==
    IF i > Len(kids)
    THEN w
    ELSE Only({ ArrangeChildren(r.w, kids, sizes, i + 1,
                                ChildAllocation(sizes[i], curr, ctx).curr, ctx) :
                  r \in { WidgetComputeLayout(w, kids[i],
                              FinalLayout(ChildAllocation(sizes[i], curr, ctx).allocated,
                                          ctx.scale_factor)) } })

\* an assert_eq! in the place of the assert_ne!
AssertionFailsWhenBounded(main_available) == main_available # Inf

\* the condition under which assert_ne!(main_available, f32::INFINITY) fails
AssertionFails(main_available) == main_available = Inf

\* compute_layout_with_children after the first loop, m being what the
\* loop has gathered
ContainerFinish(m, n, input) ==
    LET style == attrs[n]
        scale_factor == input.scale_factor
        spacing == SizeRectScale(scale_factor,
                       SizeRectAdd(SizeRectAdd(style.margin, style.padding),
                                   SizeRectFrom(style.border_size)))
        main_axis == style.main_axis
        main_available ==
            SizeAxis(SizeSub(Available(input), SumAxes(spacing)), main_axis)
        main_sizing == IF main_axis = "Vertical" THEN style.height ELSE style.width
        cross_sizing == IF main_axis = "Vertical" THEN style.width ELSE style.height
        total_main_space ==
            m.total_main_space + m.total_expand_factor * m.max_space_per_expand
        content_size ==
            SizeFromAxes(main_axis,
                AsDefiniteOr(main_sizing, scale_factor, total_main_space),
                AsDefiniteOr(cross_sizing, scale_factor, m.max_cross_space))
    IN  IF input.tag = "ComputeSize"
        THEN [w |-> m.w,
              result |-> ComputedLayout(
                  FromTopleftSize(0, 0, SizeAdd(content_size, SumAxes(spacing))))]
        ELSE IF AssertionFails(main_available)
        THEN [w |-> [m.w EXCEPT !.panicked = TRUE],
              result |-> ComputedLayout(input.allocated)]
        ELSE LET remaining ==
                     SizeAxis(RectSize(ShrinkBy(input.allocated, spacing)), main_axis)
                     - SizeAxis(content_size, main_axis)
                 justified == remaining > 0 /\ m.total_expand_factor = 0
                 min_shrink == CASE style.main_justify = "Min" -> 0
                                 [] style.main_justify = "Max" -> remaining
                                 [] style.main_justify = "Center" -> remaining \div 2
                 max_shrink == CASE style.main_justify = "Min" -> remaining
                                 [] style.main_justify = "Max" -> 0
                                 [] style.main_justify = "Center" -> remaining \div 2
                 allocated ==
                     IF justified
                     THEN ShrinkBy(input.allocated,
                                   SizeRectFromAxis(main_axis, min_shrink, max_shrink))
                     ELSE input.allocated
                 space_per_expand ==
                     IF remaining > 0 /\ m.total_expand_factor # 0
                     THEN remaining \div m.total_expand_factor
                     ELSE 0
                 content_box == ShrinkBy(allocated, spacing)
                 curr == IF main_axis = "Horizontal"
                         THEN IF style.main_direction = "Positive"
                              THEN RectLeft(content_box) ELSE RectRight(content_box)
                         ELSE IF style.main_direction = "Positive"
                              THEN RectTop(content_box) ELSE RectBottom(content_box)
                 ctx == [main_axis |-> main_axis,
                         main_direction |-> style.main_direction,
                         cross_justify |-> style.cross_justify,
                         content_box |-> content_box,
                         content_size |-> content_size,
                         space_per_expand |-> space_per_expand,
                         scale_factor |-> scale_factor]
             IN  [w |-> ArrangeChildren(m.w, children[n], m.sizes, 1, curr, ctx),
                  result |-> ComputedLayout(allocated)]

\* the closure compute_layout_with_children hands to get_or_update
ContainerLayout(w, n, input) ==
    LET style == attrs[n]
        spacing == SizeRectScale(input.scale_factor,
                       SizeRectAdd(SizeRectAdd(style.margin, style.padding),
                                   SizeRectFrom(style.border_size)))
        available_content_size == SizeSub(Available(input), SumAxes(spacing))
        cross_available == SizeAxis(available_content_size, Cross(style.main_axis))
        child_input == ComputeSize(SizeFromAxes(style.main_axis, Inf, cross_available),
                                   input.scale_factor)
        nothing == [w |-> w, sizes |-> <<>>, total_main_space |-> 0,
                    max_cross_space |-> 0, total_expand_factor |-> 0,
                    max_space_per_expand |-> 0]
    IN  Only({ ContainerFinish(m, n, input) :
                 m \in { MeasureChildren(nothing, children[n], 1,
                                         style.main_axis, child_input) } })

\* Widget::compute_layout of node n: Label::compute_layout is
\* compute_layout_leaf with the measure closure, Div::compute_layout is
\* compute_layout_with_children; both go through get_or_update
WidgetComputeLayout(called, n, input) ==
    LET w == [called EXCEPT !.log = Append(@, [node |-> n, input |-> input])]
    IN  IF CacheHit(w.c[n][SlotOf(input)], input)
        THEN [w |-> w, result |-> w.c[n][SlotOf(input)].cached]
        ELSE IF kind[n] = "Label"
        THEN Only({ [w |-> [w EXCEPT !.c[n] = after, !.measured = @ \cup {n}],
                     result |-> after[SlotOf(input)].cached] :
                      after \in { ComputeLayoutLeaf(w.c[n], attrs[n], input,
                                      MeasureLabel(w, n, LeafContentBox(attrs[n], input),
                                                   input.scale_factor)) } })
        ELSE Only({ [w |-> [r.w EXCEPT !.c[n][SlotOf(input)] =
                                GetOrUpdate(w.c[n][SlotOf(input)], input, r.result)],
                     result |-> r.result] :
                      r \in { ContainerLayout(w, n, input) } })

\* Root::compute_layout(viewport, scale_factor)
RootComputeLayout(w, viewport, scale_factor) ==
    WidgetComputeLayout(w, root, FinalLayout(FromTopleftSize(0, 0, viewport), scale_factor)).w

(***************************************************************************)
(* lib.rs: Signal, Changed and update_model                                *)
(*                                                                         *)
(* The Rc<Cell<bool>> a Label owns in `changed` is named by the Label; the *)
(* one run_and_track has made and no widget owns yet is NewCell.  A Weak   *)
(* to a cell that has been dropped is NoTracker.  An update works on       *)
(* u = [c, text, changed, model, tracker, recomputed]: the program state   *)
(* and the Labels whose text the update has computed.                      *)
(***************************************************************************)
\* Option::None of TRACKER; a Weak that does not upgrade
NoTracker == 0
\* the Rc<Cell<bool>> of the running Changed::run_and_track
NewCell == -1
\* the Rc<Cell<bool>> the Select owns in `dirty`
SelectCell == -2
\* the values the application stores in its Signal
ModelValues == {1, 2}
\* the Labels whose compute closure reads the Signal; the closure of any
\* other Label returns a constant
LabelReads(n) == n % 2 = 1

\* Signal::get
ModelGet(u) ==
    [u |-> IF u.tracker # NoTracker
           THEN [u EXCEPT !.model.trackers = Append(@, u.tracker)]
           ELSE u,
     value |-> u.model.value]

\* Signal::set: the changed flag of every Label after the retain
MarkTrackers(flags, trackers) ==
    [n \in Nodes |-> flags[n] \/ \E i \in 1..Len(trackers) : trackers[i] = n]

\* Signal::set: the flag of one cell after the retain
MarkCell(flag, id, trackers) == flag \/ \E i \in 1..Len(trackers) : trackers[i] = id

\* Signal::set: the trackers the retain keeps
RetainLive(trackers) == SelectSeq(trackers, LAMBDA x : x # NoTracker)

\* the compute closure of Label n
LabelCompute(u, n) ==
    IF LabelReads(n) THEN ModelGet(u) ELSE [u |-> u, value |-> 1]

\* self.changed = changed: the cell the Label owned is dropped and the
\* cell of run_and_track is the Label's
AdoptCell(trackers, n) ==
    [i \in 1..Len(trackers) |->
        IF trackers[i] = n THEN NoTracker
        ELSE IF trackers[i] = NewCell THEN n
        ELSE trackers[i]]

\* Label::update_model
LabelUpdateModel(u, n) ==
    IF u.changed[n]
    THEN LET old == u.tracker
             r == LabelCompute([u EXCEPT !.tracker = NewCell], n)
             returned == [r.u EXCEPT !.tracker = old]
         IN  [returned EXCEPT !.text[n] = r.value,
                              !.c = InvalidateFrom(returned.c, {}, n),
                              !.model.trackers = AdoptCell(@, n),
                              !.changed[n] = FALSE,
                              !.recomputed = @ \cup {n}]
    ELSE u

RECURSIVE WidgetUpdateModel(_, _)

\* the loop of Div::update_model
RECURSIVE UpdateChildren(_, _, _)
UpdateChildren(u, kids, i) ==
    IF i > Len(kids)
    THEN u
    ELSE Only({ UpdateChildren(next, kids, i + 1) :
                  next \in { WidgetUpdateModel(u, kids[i]) } })

\* Widget::update_model of node n
WidgetUpdateModel(u, n) ==
    IF kind[n] = "Label" THEN LabelUpdateModel(u, n) ELSE UpdateChildren(u, children[n], 1)

(***************************************************************************)
(* The operations on the widget tree                                       *)
(***************************************************************************)
\* the viewports and scale factors of the window
Viewports == { Size(20, 12), Size(24, 12) }
ScaleFactors == {1, 2}

\* the widgets that have been moved into a Div or into the Root
Owned ==
    { n \in Nodes :
        n = root \/ \E d \in Nodes : \E i \in 1..Len(children[d]) : children[d][i] = n }

\* Div::add_child(c) on Div d, both still owned by the caller
AddChild(d, c) ==
    /\ root = NoNode
    /\ kind[d] = "Div"
    /\ d # c
    /\ {d, c} \cap Owned = {}
    /\ cache' = InvalidateFrom(cache, {}, d)
    /\ children' = [children EXCEPT ![d] = Append(@, c)]
    /\ last' = [op |-> "add_child", node |-> d, child |-> c]
    /\ UNCHANGED <<attrs, dropped, seen, kind, root, text, changed, model, tracker, select>>
    /\ UNCHANGED trackVars

\* Root::new(element) on widget r
NewRoot(r) ==
    /\ root = NoNode
    /\ r \notin Owned
    /\ root' = r
    /\ last' = [op |-> "new_root", node |-> r]
    /\ UNCHANGED <<kind, children, text, changed, model, tracker, select>>
    /\ UNCHANGED layoutVars
    /\ UNCHANGED trackVars

\* the application stores v in its Signal with Signal::set
ModelSet(v) ==
    /\ model' = [value |-> v, trackers |-> RetainLive(model.trackers)]
    /\ changed' = MarkTrackers(changed, model.trackers)
    /\ select' = [select EXCEPT !.dirty = MarkCell(@, SelectCell, model.trackers)]
    /\ last' = [op |-> "set", node |-> NoNode]
    /\ UNCHANGED <<kind, children, root, text, tracker>>
    /\ UNCHANGED layoutVars
    /\ UNCHANGED trackVars

\* one redraw of the application: Root::update_model, then
\* Root::compute_layout with the viewport and scale factor of the window
Frame(viewport, scale_factor) ==
    /\ root # NoNode
    /\ \E u \in { WidgetUpdateModel([c |-> cache, text |-> text, changed |-> changed,
                                     model |-> model, tracker |-> tracker,
                                     recomputed |-> {}], root) } :
       \E w \in { RootComputeLayout([c |-> u.c, text |-> u.text, measured |-> {},
                                     panicked |-> FALSE, log |-> <<>>],
                                    viewport, scale_factor) } :
          /\ ~w.panicked
          /\ cache' = w.c
          /\ text' = u.text
          /\ changed' = u.changed
          /\ model' = u.model
          /\ tracker' = u.tracker
          /\ last' = [op |-> "frame", node |-> root,
                      viewport |-> viewport, scale_factor |-> scale_factor,
                      before |-> cache,
                      updated |-> u.c,
                      recomputed |-> u.recomputed,
                      measured |-> w.measured]
    /\ UNCHANGED <<attrs, dropped, seen, kind, children, root, select>>
    /\ UNCHANGED trackVars

\* Select::new(1, options, selector)
NewSelect == [dirty |-> TRUE, cached |-> 1, moved |-> NoNode]

InitLib(k) ==
    /\ kind = k
    /\ children = [n \in Nodes |-> <<>>]
    /\ root = NoNode
    /\ text = [n \in Nodes |-> 0]
    /\ changed = [n \in Nodes |-> k[n] = "Label"]
    /\ model = [value |-> 1, trackers |-> <<>>]
    /\ tracker = NoTracker
    /\ select = NewSelect


(***************************************************************************)
(* lib.rs: Select.  The options of the Select are the widgets Options[1]   *)
(* and Options[2]; its selector closure reads the Signal and returns its   *)
(* value as the index.                                                     *)
(***************************************************************************)
\* index -> the widget of that option
Options == <<2, 3>>
OptionNodes == { Options[i] : i \in 1..Len(Options) }
\* the widgets that can hold a Select: every widget that is not an option
Containers == Nodes \ OptionNodes

\* the selector closure of the Select
Selector(u) == ModelGet(u)

\* self.dirty = dirty: the cell the Select owned is dropped and the cell of
\* run_and_track is the Select's
AdoptSelectCell(trackers) ==
    [i \in 1..Len(trackers) |->
        IF trackers[i] = SelectCell THEN NoTracker
        ELSE IF trackers[i] = NewCell THEN SelectCell
        ELSE trackers[i]]

\* a transfer that links the new option and leaves the old link in place
TransferParentKeepsOld(c, old, new) ==
    IF c[old].parent # NoNode THEN [c EXCEPT ![new].parent = c[old].parent] ELSE c

\* a transfer that copies the link of the old option to the new one
TransferParentCopies(c, old, new) == [c EXCEPT ![new].parent = c[old].parent]

\* if let Some(parent) = options[old_index].props().remove_parent()
\*     { options[index].props().set_parent(parent) }
TransferParent(c, old, new) ==
    LET parent == c[old].parent
        removed == [c EXCEPT ![old].parent = NoNode]
    IN  IF parent # NoNode THEN [removed EXCEPT ![new].parent = parent] ELSE removed

\* the assertion of set_parent in the transfer: the new option has no link
\* once the link of the old one has been taken
TransferAsserts(c, old, new) ==
    c[old].parent # NoNode => [c EXCEPT ![old].parent = NoNode][new].parent = NoNode

\* the widgets a holder of the Select calls compute_layout on: the Select
\* passes the call to the option it shows, so the option of the new index
\* stands where the one of the old index stood
ShowOption(kids, old, new) ==
    [i \in 1..Len(kids) |-> IF kids[i] = old THEN new ELSE kids[i]]

\* the trackers after a panic inside update_model: the cell of run_and_track
\* is dropped with the frame of the call
DropNewCell(trackers) ==
    [i \in 1..Len(trackers) |->
        IF trackers[i] = NewCell THEN NoTracker ELSE trackers[i]]

\* Select::update_model; when the assertion of set_parent fails the call
\* panics after cached.replace and remove_parent, before self.dirty = dirty
SelectUpdateModel ==
    /\ IF select.dirty
       THEN \E r \in { Selector([model |-> model, tracker |-> NewCell]) } :
            \E old \in { Options[select.cached] } :
              IF TransferAsserts(cache, old, Options[r.value])
              THEN /\ model' = [r.u.model EXCEPT !.trackers = AdoptSelectCell(@)]
                   /\ cache' = TransferParent(cache, old, Options[r.value])
                   /\ children' = [n \in Nodes |-> ShowOption(children[n], old, Options[r.value])]
                   /\ select' = [dirty |-> FALSE, cached |-> r.value,
                                 moved |-> IF r.value # select.cached
                                           THEN cache[old].parent ELSE select.moved]
              ELSE /\ model' = [r.u.model EXCEPT !.trackers = DropNewCell(@)]
                   /\ cache' = [cache EXCEPT ![old].parent = NoNode]
                   /\ children' = [n \in Nodes |-> ShowOption(children[n], old, Options[r.value])]
                   /\ select' = [select EXCEPT !.cached = r.value]
       ELSE UNCHANGED <<model, cache, select, children>>
    /\ last' = [op |-> "select_update_model", node |-> NoNode,
                ran |-> select.dirty, old_index |-> select.cached,
                index |-> IF select.dirty THEN model.value ELSE select.cached,
                panicked |-> select.dirty /\
                    ~TransferAsserts(cache, Options[select.cached], Options[model.value]),
                before |-> cache]
    /\ UNCHANGED <<attrs, dropped, seen, kind, root, text, changed, tracker>>
    /\ UNCHANGED trackVars

\* the widget that holds the Select links itself above the BoxLayout the
\* Select shows as its own, the one of the selected option
LinkSelect(p) == SetParent(Options[select.cached], p)

(***************************************************************************)
(* A container with its children, laid out by whoever holds it.            *)
(***************************************************************************)
\* the style of the container: its spacing, the sizing of its main axis,
\* its axis, direction and justification
ContainerStyle(spaced, main_sizing, main_axis, main_direction, main_justify) ==
    [(IF spaced THEN DivStyle ELSE LayoutStyle(0, 0, 0)) EXCEPT
        !.width = IF main_axis = "Horizontal" THEN main_sizing ELSE Fit,
        !.height = IF main_axis = "Vertical" THEN main_sizing ELSE Fit,
        !.main_axis = main_axis,
        !.main_direction = main_direction,
        !.main_justify = main_justify]

\* the style of a child: the same sizing on both axes
ChildStyle(sizing) == [LabelStyle EXCEPT !.width = sizing, !.height = sizing]

\* a rectangle or a size given by its extent along main_axis
RectAlong(main_axis, x, y, main, cross) ==
    FromTopleftSize(x, y, SizeFromAxes(main_axis, main, cross))

\* the inputs the holder of the container calls compute_layout with
ArrangeInputs(main_axis) ==
    { FinalLayout(RectAlong(main_axis, 3, 4, 100, 10), 1),
      FinalLayout(RectAlong(main_axis, 0, 0, Inf, 10), 1),
      FinalLayout(RectAlong(main_axis, 0, 0, 100, Inf), 1),
      ComputeSize(SizeFromAxes(main_axis, 100, 10), 1),
      ComputeSize(SizeFromAxes(main_axis, Inf, 10), 1) }

\* number of compute_layout calls the holder makes on the container
MaxCalls == 2

\* compute_layout(input) on the container, node 1
ArrangeContainer(input) ==
    /\ (IF last.op = "none" THEN 0 ELSE last.calls) < MaxCalls
    /\ \E w \in { WidgetComputeLayout([c |-> cache, text |-> text, measured |-> {},
                                       panicked |-> FALSE, log |-> <<>>], 1, input) } :
          /\ cache' = IF w.w.panicked THEN cache ELSE w.w.c
          /\ last' = [op |-> "compute_layout", node |-> 1, input |-> input,
                      ran |-> ~CacheHit(cache[1][SlotOf(input)], input),
                      panicked |-> w.w.panicked,
                      result |-> w.result,
                      before |-> cache,
                      after |-> w.w.c,
                      log |-> w.w.log,
                      calls |-> IF last.op = "none" THEN 1 ELSE last.calls + 1]
    /\ UNCHANGED <<attrs, dropped, seen>>
    /\ UNCHANGED libVars
    /\ UNCHANGED trackVars

(***************************************************************************)
(* layout.rs: get_final_layout                                             *)
(***************************************************************************)
\* Rect::clamp_positive
ClampPositive(r) == Rect(r.x, r.y, FMax(r.w, 0), FMax(r.h, 0))

\* 0.5 * SizeRect::from_border(border_size); the border sizes of the model
\* are even
HalfBorder(border_size) == SizeRectFrom(border_size \div 2)

\* BoxLayout::get_final_layout: the Layout, and whether it is returned as Ok
GetFinalLayout(ci, style) ==
    LET margin_box == ci.cached_final.cached.margin_box
        scale_factor == ci.cached_final.with_input.scale_factor
        border_box ==
            ShrinkBy(margin_box,
                SizeRectScale(scale_factor,
                    SizeRectAdd(style.margin, HalfBorder(style.border_size))))
        padding_box ==
            ShrinkBy(margin_box,
                SizeRectScale(scale_factor,
                    SizeRectAdd(style.margin, SizeRectFrom(style.border_size))))
        content_box ==
            ShrinkBy(margin_box,
                SizeRectScale(scale_factor,
                    SizeRectAdd(SizeRectAdd(style.margin, style.padding),
                                SizeRectFrom(style.border_size))))
    IN  [layout |-> [margin_box |-> ClampPositive(margin_box),
                     border_box |-> ClampPositive(border_box),
                     padding_box |-> ClampPositive(padding_box),
                     content_box |-> ClampPositive(content_box),
                     scale_factor |-> scale_factor],
         ok |-> ci.cached_final.is_valid]

\* get_final_layout() on node n
GetFinal(n) ==
    /\ \E r \in { GetFinalLayout(cache[n], attrs[n]) } :
          last' = [op |-> "get_final_layout", node |-> n,
                   layout |-> r.layout, ok |-> r.ok,
                   calls |-> IF "calls" \in DOMAIN last THEN last.calls ELSE 0]
    /\ UNCHANGED layoutVars
    /\ UNCHANGED libVars
    /\ UNCHANGED trackVars

\* the inputs the holder of a childless container arranges it with: a
\* roomy rectangle and one smaller than the spacing of the container
BoxInputs ==
    { FinalLayout(r, s) : r \in { Rect(3, 4, 30, 20), Rect(0, 0, 4, 4) }, s \in {1, 2} }

(***************************************************************************)
(* interact.rs, math.rs: InteractSet                                       *)
(***************************************************************************)
\* InteractSet::empty, InteractSet::default
EmptyInteractSet == [click |-> FALSE, click_area |-> Rect(0, 0, 0, 0)]

\* the body of the loop of Rect::bounding_box: the four tests in turn, each
\* on the bounds the one before has left
BoundingBoxStep(bounds, rect) ==
    LET b1 == IF rect.x < bounds.x THEN [bounds EXCEPT !.x = rect.x] ELSE bounds
        b2 == IF rect.y < b1.y THEN [b1 EXCEPT !.y = rect.y] ELSE b1
        b3 == IF rect.x + rect.w > b2.x + b2.w
              THEN [b2 EXCEPT !.w = (rect.x + rect.w) - b2.x] ELSE b2
    IN  IF rect.y + rect.h > b3.y + b3.h
        THEN [b3 EXCEPT !.h = (rect.y + rect.h) - b3.y] ELSE b3

\* Rect::bounding_box of a non-empty sequence of rectangles
RECURSIVE BoundingBoxFrom(_, _, _)
BoundingBoxFrom(bounds, rects, i) ==
    IF i > Len(rects) THEN bounds
    ELSE BoundingBoxFrom(BoundingBoxStep(bounds, rects[i]), rects, i + 1)
BoundingBox(rects) == BoundingBoxFrom(rects[1], rects, 2)

\* BitOr for InteractSet
BitOr(lhs, rhs) ==
    [click |-> lhs.click \/ rhs.click,
     click_area |-> BoundingBox(<<lhs.click_area, rhs.click_area>>)]

\* the closure of Div::interactions over the InteractSets of the children
RECURSIVE DivInteractionsFrom(_, _, _)
DivInteractionsFrom(set, kids, i) ==
    IF i > Len(kids) THEN set
    ELSE DivInteractionsFrom(BitOr(set, kids[i]), kids, i + 1)
DivInteractions(kids) == DivInteractionsFrom(EmptyInteractSet, kids, 1)

\* the click areas and the InteractSets of the widgets
ClickAreas == { Rect(x, y, w, 1) : x \in {0, 2, 5}, y \in {0, 3}, w \in {1, 4} }
InteractSets ==
    {EmptyInteractSet} \cup { [click |-> c, click_area |-> r] : c \in BOOLEAN, r \in ClickAreas }

\* a | b, evaluated once
Union(a, b) ==
    /\ last.op = "none"
    /\ last' = [op |-> "bitor", lhs |-> a, rhs |-> b, result |-> BitOr(a, b)]
    /\ UNCHANGED layoutVars
    /\ UNCHANGED libVars
    /\ UNCHANGED trackVars

\* (a | b) | c and a | (b | c), and Div::interactions over children whose
\* InteractSets are a, b, c and over the same children in the opposite order
Reduce(a, b, c) ==
    /\ last.op = "none"
    /\ last' = [op |-> "reduce", sets |-> <<a, b, c>>,
                left |-> BitOr(BitOr(a, b), c),
                right |-> BitOr(a, BitOr(b, c)),
                forward |-> DivInteractions(<<a, b, c>>),
                backward |-> DivInteractions(<<c, b, a>>)]
    /\ UNCHANGED layoutVars
    /\ UNCHANGED libVars
    /\ UNCHANGED trackVars

(***************************************************************************)
(* element.rs: the BoxLayout of mod props                                  *)
(***************************************************************************)
\* props::BoxLayout::get_final_layout: the boxes are shrunk by the unscaled
\* spacing and are not clamped
PropsGetFinalLayout(ci, style) ==
    LET margin_box == ci.cached_final.cached.margin_box
        border_box ==
            ShrinkBy(margin_box, SizeRectAdd(style.margin, HalfBorder(style.border_size)))
        padding_box ==
            ShrinkBy(margin_box, SizeRectAdd(style.margin, SizeRectFrom(style.border_size)))
        content_box ==
            ShrinkBy(margin_box,
                SizeRectAdd(SizeRectAdd(style.margin, style.padding),
                            SizeRectFrom(style.border_size)))
    IN  [layout |-> [margin_box |-> margin_box,
                     border_box |-> border_box,
                     padding_box |-> padding_box,
                     content_box |-> content_box,
                     scale_factor |-> ci.cached_final.with_input.scale_factor],
         ok |-> ci.cached_final.is_valid]

\* props::BoxLayout::get_final_layout() on node n
PropsGetFinal(n) ==
    /\ \E r \in { PropsGetFinalLayout(cache[n], attrs[n]) } :
          last' = [op |-> "props_get_final_layout", node |-> n,
                   layout |-> r.layout, ok |-> r.ok,
                   calls |-> IF "calls" \in DOMAIN last THEN last.calls ELSE 0]
    /\ UNCHANGED layoutVars
    /\ UNCHANGED libVars
    /\ UNCHANGED trackVars

\* Element::draw on node n: the Layout handed to Widget::draw is the one
\* get_final_layout returns, Ok or Err
ElementDraw(n) ==
    /\ \E r \in { PropsGetFinalLayout(cache[n], attrs[n]) } :
          last' = [op |-> "draw", node |-> n, layout |-> r.layout, ok |-> r.ok,
                   after_invalidate |-> last.op = "invalidate",
                   before |-> IF last.op = "invalidate" THEN last.before ELSE cache]
    /\ UNCHANGED layoutVars
    /\ UNCHANGED libVars
    /\ UNCHANGED trackVars

\* the inputs the holder of the Select is laid out with
HolderInputs ==
    { FinalLayout(Rect(0, 0, 40, 30), 1), FinalLayout(Rect(0, 0, 60, 30), 1),
      ComputeSize(Size(40, 30), 1) }

\* compute_layout(input) on the Div that holds the Select (node 1); its
\* child is the Select, whose compute_layout is that of element_mut()
HolderComputeLayout(input) ==
    /\ \E w \in { WidgetComputeLayout([c |-> cache, text |-> text, measured |-> {},
                                       panicked |-> FALSE, log |-> <<>>], 1, input) } :
          /\ cache' = IF w.w.panicked THEN cache ELSE w.w.c
          /\ last' = [op |-> "holder_compute_layout", node |-> 1, input |-> input,
                      ran |-> ~CacheHit(cache[1][SlotOf(input)], input),
                      log |-> w.w.log,
                      before |-> cache,
                      shown |-> Options[select.cached],
                      switched |-> IF last.op = "select_update_model"
                                   THEN /\ last.ran
                                        /\ last.old_index # last.index
                                        /\ last.before[Options[last.old_index]].parent = 1
                                   ELSE FALSE]
    /\ UNCHANGED <<attrs, dropped, seen>>
    /\ UNCHANGED libVars
    /\ UNCHANGED trackVars

(***************************************************************************)
(* widgets/div.rs, widgets/button.rs, widgets/label.rs: a Div that holds   *)
(* one Button over a Label.  Every cache of a widget is a cell; the Vec of *)
(* children of the Div is the signal "children".                           *)
(***************************************************************************)
Widgets == {"div", "button", "label"}
PrelayoutCell(w) ==
    IF w = "div" THEN "div.prelayout_cache"
    ELSE IF w = "button" THEN "button.prelayout_cache"
    ELSE "label.prelayout_cache"
LayoutCell(w) ==
    IF w = "div" THEN "div.layout_cache"
    ELSE IF w = "button" THEN "button.layout_cache"
    ELSE "label.layout_cache"
InteractionCell(w) == IF w = "div" THEN "div.interactions_cache" ELSE "button.interactions"
Computed2Cells == { PrelayoutCell(w) : w \in Widgets } \cup { LayoutCell(w) : w \in Widgets }
WidgetCells == Computed2Cells \cup { InteractionCell(w) : w \in {"div", "button"} }

\* most Weak references one dependents list of the widgets may hold
MaxWeak == 4

\* Button::new: the style of Div::new with both justifications Center
ButtonStyle ==
    [LayoutStyle(1, 2, 2) EXCEPT !.main_justify = "Center", !.cross_justify = "Center"]
WidgetStyle(w) ==
    IF w = "div" THEN DivStyle ELSE IF w = "button" THEN ButtonStyle ELSE LabelStyle

\* I::default() and V::default() of a Computed2<LayoutInput, Layout>
DefaultLayoutInput == FinalLayout(Rect(0, 0, 0, 0), 0)
DefaultLayout ==
    [margin_box |-> Rect(0, 0, 0, 0), border_box |-> Rect(0, 0, 0, 0),
     padding_box |-> Rect(0, 0, 0, 0), content_box |-> Rect(0, 0, 0, 0),
     scale_factor |-> 0]

\* Layout::from_layout_input: the boxes of the allocated rectangle
FromLayoutInput(style, input) ==
    GetFinalLayout([cached_final |-> [is_valid |-> TRUE, with_input |-> input,
                                      cached |-> ComputedLayout(input.allocated)]],
                   style).layout

\* layout::container::do_layout for one child: the child is allocated the
\* content box of the container
ContainerDoLayout(style, input) ==
    FinalLayout(FromLayoutInput(style, input).content_box, input.scale_factor)

\* the test of Computed2::maybe_update
Computed2Runs(t, d, input) == IsDirty(t, d) \/ input # t.cell[d].input

\* a maybe_update that does not mark the old observer
Computed2StoreUnmarked(t, d, input, observer, value) ==
    LET t2 == [t EXCEPT !.cell[d].input = input]
        t3 == StoreObserver(t2, d, observer)
    IN  [t3 EXCEPT !.cell[d].value = value]

\* Computed2::maybe_update after run_and_track has returned
Computed2Store(t, d, input, observer, value) ==
    LET t1 == MarkDirty(t, t.cell[d].as_observer)
        t2 == [t1 EXCEPT !.cell[d].input = input]
        t3 == StoreObserver(t2, d, observer)
    IN  [t3 EXCEPT !.cell[d].value = value]

\* Div::layout, Button::layout, Label::layout
RECURSIVE WidgetLayout(_, _, _)

\* the closure the layout of widget w hands to layout_cache.maybe_update
LayoutClosure(t, w, input) ==
    LET t1 == Track(t, PrelayoutCell(w))
        style == WidgetStyle(w)
    IN  IF w = "div"
        THEN RwSignalWith(WidgetLayout(t1, "button", ContainerDoLayout(style, input)),
                          "children").t
        ELSE IF w = "button"
        THEN WidgetLayout(t1, "label", ContainerDoLayout(style, input))
        ELSE t1

WidgetLayout(t, w, input) ==
    IF Computed2Runs(t, LayoutCell(w), input)
    THEN \* ObserverInner::run_and_track(|| f(&input))
         LET old_scope == t.scope
             entered == NoteEnter(RunAndTrackEnter(t))
             ran == { LayoutClosure(NoteCompute(entered, LayoutCell(w)), w, input) }
             exited == { NoteExit(RunAndTrackExit(r, entered.scope, old_scope)) : r \in ran }
         IN  Only({ Track(Computed2Store(e, LayoutCell(w), input, entered.scope,
                                         FromLayoutInput(WidgetStyle(w), input)),
                          LayoutCell(w)) : e \in exited })
    ELSE Track(t, LayoutCell(w))

\* Div::interactions, Button::interactions, Label::interactions
WidgetInteractions(t, w) ==
    IF w = "label"
    THEN [t |-> t, value |-> EmptyInteractSet]
    ELSE DerivedGet(ComputedMaybeUpdate(t, InteractionCell(w)), InteractionCell(w))

InteractionsClosure(t, d) ==
    IF d = "button.interactions"
    THEN LET set == WidgetInteractions(NoteCompute(t, d), "label")
             layout == DerivedGet(set.t, "button.layout_cache")
             this_set == [click |-> TRUE, click_area |-> layout.value.border_box]
         IN  [t |-> layout.t, value |-> BitOr(this_set, set.value)]
    ELSE LET child == WidgetInteractions(NoteCompute(t, d), "button")
         IN  [t |-> RwSignalWith(child.t, "children").t,
              value |-> BitOr(EmptyInteractSet, child.value)]

\* no dependents list of the widgets holds more than MaxWeak references
FitsWidgets(t) ==
    /\ \A s \in DOMAIN t.sig : Len(t.sig[s].dependents) <= MaxWeak
    /\ \A o \in ObsIds : Len(t.obs[o].dependents) <= MaxWeak

\* the rectangles the holder of the Div arranges it in
WidgetInputs ==
    { FinalLayout(Rect(0, 0, 40, 30), 1), FinalLayout(Rect(5, 5, 40, 30), 1),
      FinalLayout(Rect(0, 0, 40, 30), 2) }

\* the observers on which the observer of cell d is registered
RegisteredOn(ob, d) ==
    { o \in ObsIds : ob[o].live /\ \E i \in 1..Len(ob[o].dependents) :
                                       ob[o].dependents[i] = cell[d].as_observer }

\* layout(input) is called on the Div from outside any scope
RootLayout(input) ==
    \E t \in { WidgetLayout(Tracking, "div", input) } :
        /\ FitsWidgets(t)
        /\ Commit(t)
        /\ last' = [op |-> "layout", input |-> input,
                    before |-> obs, cells |-> cell,
                    computes |-> t.computes]
        /\ UNCHANGED tracked
        /\ UNCHANGED layoutVars
        /\ UNCHANGED libVars

\* interactions() is called on the Div from outside any scope
RootInteractions ==
    \E r \in { WidgetInteractions(Tracking, "div") } :
        /\ FitsWidgets(r.t)
        /\ Commit(r.t)
        /\ last' = [op |-> "interactions", result |-> r.value,
                    before |-> obs, cells |-> cell,
                    computes |-> r.t.computes]
        /\ UNCHANGED tracked
        /\ UNCHANGED layoutVars
        /\ UNCHANGED libVars

\* the live observers in the dependents list of observer o
Registered(ob, o) ==
    { p \in ObsIds : ob[p].live /\ \E i \in 1..Len(ob[o].dependents) :
                                       ob[o].dependents[i] = p }

\* layout_cache.maybe_update(input, f) of widget w, called through
\* w.layout(input) from outside any scope
Computed2MaybeUpdate(w, input) ==
    \E t \in { WidgetLayout(Tracking, w, input) } :
        /\ FitsWidgets(t)
        /\ Commit(t)
        /\ last' = [op |-> "computed2_maybe_update", cell |-> LayoutCell(w),
                    input |-> input,
                    was_dirty |-> IsDirty(Tracking, LayoutCell(w)),
                    before |-> cell[LayoutCell(w)],
                    obs |-> obs,
                    dependents |-> Registered(obs, cell[LayoutCell(w)].as_observer),
                    value |-> FromLayoutInput(WidgetStyle(w), input),
                    computes |-> t.computes]
        /\ UNCHANGED tracked
        /\ UNCHANGED layoutVars
        /\ UNCHANGED libVars

\* Div::new, Button::new, Label::new: every cell with a Dirty observer
InitWidgetCells ==
    /\ \E order \in { <<"div.prelayout_cache", "div.layout_cache", "div.interactions_cache",
                        "button.prelayout_cache", "button.layout_cache", "button.interactions",
                        "label.prelayout_cache", "label.layout_cache">> } :
          /\ obs = [o \in ObsIds |->
                      IF o <= Len(order) THEN NewObserverInner(Dirty) ELSE NoObserver]
          /\ cell = [d \in WidgetCells |->
                       [as_observer |-> CHOOSE i \in 1..Len(order) : order[i] = d,
                        input |-> DefaultLayoutInput,
                        value |-> IF d \in Computed2Cells THEN DefaultLayout
                                  ELSE EmptyInteractSet]]
    /\ sig = [s \in {"children"} |-> [value |-> 0, dependents |-> <<>>]]
    /\ scope = NoObs
    /\ tracked = [d \in Cells |-> NeverComputed]

(***************************************************************************)
(* widgets/div.rs, widgets/label.rs: update of the Div "outer" over the    *)
(* Div "inner" and the Label "title"                                       *)
(***************************************************************************)
\* Label::update, the state after text.maybe_update being computed once
LabelUpdateOnce(t, d) ==
    Only({ Only({ Track(u, d) : u \in { DerivedMaybeUpdate(v, d).t } }) : v \in {t} })

\* Div::update of the Div whose update_cache is cell d
RECURSIVE DivUpdate(_, _)

\* the closure Div::update hands to update_cache.maybe_update: update is
\* called on every child inside TrackedVec::with
ComputeDivUpdate(t, d) ==
    IF d = "inner.update_cache"
    THEN Only({ RwSignalWith(t2, "inner.children").t :
                  t2 \in { LabelUpdateOnce(NoteUpdate(NoteCompute(t, d), "D1"), "D1") } })
    ELSE Only({ Only({ RwSignalWith(t2, "outer.children").t :
                         t2 \in { LabelUpdateOnce(NoteUpdate(t1, "title"), "title") } }) :
                  t1 \in { DivUpdate(NoteCompute(t, d), "inner.update_cache") } })

\* update_cache.maybe_update(closure) with its run_and_track, then
\* update_cache.track()
DivUpdate(t, d) ==
    IF IsDirty(t, d)
    THEN Only({ Only({ Track(StoreObserver([e EXCEPT !.cell[d].value = 0],
                                           d, entered.scope), d) :
                         e \in { NoteExit(RunAndTrackExit(r, entered.scope, t.scope)) :
                                   r \in { ComputeDivUpdate(entered, d) } } }) :
                  entered \in { NoteEnter(RunAndTrackEnter(
                                   MarkDirty(NoteUpdate(t, d), t.cell[d].as_observer))) } })
    ELSE Track(NoteUpdate(t, d), d)

\* the observers registered, alive, in the dependents list of signal s
ReadersOf(s) ==
    { o \in ObsIds : obs[o].live /\ \E i \in 1..Len(sig[s].dependents) :
                                      sig[s].dependents[i] = o }

\* the observers of the update_cache of both Divs and of both texts are Clean
TreeIsUpdated ==
    \A d \in UpdateCaches \cup TextCells : obs[cell[d].as_observer].is_dirty = Clean

\* signal s is written through RwSignal::update while the tree of Divs is
\* there
TreeWrite(s, v) ==
    /\ \E t \in {RwSignalUpdate(Tracking, s, v)} : Commit(t)
    /\ last' = [op |-> "tree_write", signal |-> s, before |-> obs,
                updated |-> TreeIsUpdated,
                read_by |-> { d \in TextCells : cell[d].as_observer \in ReadersOf(s) }]
    /\ UNCHANGED tracked
    /\ UNCHANGED layoutVars
    /\ UNCHANGED libVars

\* update(model) is called on the outer Div from outside any scope
RootUpdate ==
    \E t \in { DivUpdate(Tracking, "outer.update_cache") } :
        /\ FitsWidgets(t)
        /\ Commit(t)
        /\ last' = [op |-> "root_update", before |-> obs, cells |-> cell,
                    after_write |-> IF last.op = "tree_write" /\ last.updated
                                    THEN last.read_by ELSE {},
                    computes |-> t.computes,
                    updates |-> t.updates]
        /\ UNCHANGED tracked
        /\ UNCHANGED layoutVars
        /\ UNCHANGED libVars

\* Div::new twice and Label::new twice: every cell with a Dirty observer
InitTreeTrack ==
    /\ obs = [o \in ObsIds |->
                IF o \in 1..4 THEN NewObserverInner(Dirty) ELSE NoObserver]
    /\ sig = [s \in Signals \cup ChildrenSignals |-> [value |-> 0, dependents |-> <<>>]]
    /\ cell = [d \in UpdateCaches \cup TextCells |->
                 [as_observer |-> IF d = "outer.update_cache" THEN 1
                                  ELSE IF d = "inner.update_cache" THEN 2
                                  ELSE IF d = "D1" THEN 3 ELSE 4,
                  value |-> DefaultValue]]
    /\ scope = NoObs
    /\ tracked = [d \in Cells |-> NeverComputed]

\* one Div and Labels
Init ==
    /\ InitLib([n \in Nodes |-> IF n = 1 THEN "Div" ELSE "Label"])
    /\ InitLayout
    /\ InitTrack

(***************************************************************************)
(* SpecCache: one BoxLayout (node 1) computed with every input, and a      *)
(* second one (node 2) that can be linked below it.                        *)
(***************************************************************************)
NextCache ==
    \/ \E input \in LayoutInputs, m \in MeasuredSizes : ComputeLeaf(1, input, m)
    \/ \E n \in {1, 2} : Invalidate(n)
    \/ SetParent(2, 1)
    \/ RemoveParent(2)

SpecCache == Init /\ [][NextCache]_vars

(***************************************************************************)
(* SpecTree: NumNodes BoxLayouts, linked into trees (a child is linked     *)
(* below a node created before it), fully computed, invalidated, dropped.  *)
(***************************************************************************)
NextTree ==
    \/ \E n \in Nodes : ComputePass(n, Size(2, 1))
    \/ \E n \in Nodes : Invalidate(n)
    \/ \E n \in Nodes, p \in Nodes : p < n /\ SetParent(n, p)
    \/ \E n \in Nodes : RemoveParent(n)
    \/ \E n \in Nodes : Drop(n)

SpecTree == Init /\ [][NextTree]_vars

(***************************************************************************)
(* SpecTrack: two signals written and two Derived cells brought up to date *)
(* in any order.                                                           *)
(***************************************************************************)
NextTrack ==
    \/ \E s \in Signals, v \in SignalValues : Update(s, v)
    \/ \E d \in Cells : MaybeUpdate(d)
    \/ Recreate("D1")

SpecTrack == Init /\ [][NextTrack]_vars

(***************************************************************************)
(* SpecLib: widgets are put together with add_child and handed to a Root;  *)
(* then the application writes its Signal and redraws, in any order.       *)
(***************************************************************************)
\* node 1 is a Div, node 2 a Div or a Label, every other node a Label
InitWidgets ==
    /\ \E second \in {"Div", "Label"} :
          InitLib([n \in Nodes |-> IF n = 1 THEN "Div" ELSE IF n = 2 THEN second ELSE "Label"])
    /\ InitLayout
    /\ InitTrack

NextLib ==
    \/ \E d \in Nodes, c \in Nodes : AddChild(d, c)
    \/ \E r \in Nodes : NewRoot(r)
    \/ \E v \in ModelValues : ModelSet(v)
    \/ \E viewport \in Viewports, scale_factor \in ScaleFactors : Frame(viewport, scale_factor)

SpecLib == InitWidgets /\ [][NextLib]_vars


(***************************************************************************)
(* SpecSelect: a Select over two options inside a container.  The          *)
(* application writes its Signal, the Select is updated, the layouts are   *)
(* computed and invalidated, the container is dropped.                     *)
(***************************************************************************)
NextSelect ==
    \/ \E p \in Containers : LinkSelect(p)
    \/ \E v \in ModelValues : ModelSet(v)
    \/ SelectUpdateModel
    \/ \E n \in Nodes : ComputePass(n, Size(2, 1))
    \/ \E n \in Nodes : Invalidate(n)
    \/ \E p \in Containers : Drop(p)

SpecSelect == Init /\ [][NextSelect]_vars

(***************************************************************************)
(* SpecReselect: the Select of widgets/select.rs over two Labels; the      *)
(* application writes its signals and updates the Select, in any order.    *)
(***************************************************************************)
InitReselect ==
    /\ InitLib([n \in Nodes |-> IF n = 1 THEN "Div" ELSE "Label"])
    /\ InitLayout
    /\ InitSelectTrack

NextReselect ==
    \/ \E s \in Signals, v \in SignalValues : Update(s, v)
    \/ UpdateSelect

SpecReselect == InitReselect /\ [][NextReselect]_vars

(***************************************************************************)
(* SpecArrange: a container (node 1) over one or two Labels, of every      *)
(* style, measured and arranged with every input.                          *)
(***************************************************************************)
Axes == {"Horizontal", "Vertical"}
Directions == {"Positive", "Negative"}
Justifies == {"Min", "Center", "Max"}
\* the children of the container: their widgets, sizings and texts
Families ==
    { [kids |-> <<2>>, sizing |-> <<s, Fit>>, text |-> <<t, 0>>] :
         s \in {Fit, Expand, Fixed(20)}, t \in {20} }
    \cup
    { [kids |-> <<2, 3>>, sizing |-> <<s2, s3>>, text |-> <<t2, t3>>] :
         s2 \in {Fit, Expand}, s3 \in {Fit, Expand}, t2 \in {0, 20}, t3 \in {0, 30} }

InitArrange ==
    /\ \E f \in Families, spaced \in BOOLEAN, main_sizing \in {Fit, Fixed(100)},
          main_axis \in Axes, main_direction \in Directions, main_justify \in Justifies,
          cross_justify \in Justifies :
          /\ children = [n \in Nodes |-> IF n = 1 THEN f.kids ELSE <<>>]
          /\ text = [n \in Nodes |-> IF n \in {2, 3} THEN f.text[n - 1] ELSE 0]
          /\ attrs = [n \in Nodes |->
                        IF n = 1
                        THEN [ContainerStyle(spaced, main_sizing, main_axis,
                                             main_direction, main_justify)
                                 EXCEPT !.cross_justify = cross_justify]
                        ELSE IF n \in {2, 3} THEN ChildStyle(f.sizing[n - 1])
                        ELSE LabelStyle]
    /\ kind = [n \in Nodes |-> IF n = 1 THEN "Div" ELSE "Label"]
    /\ root = NoNode
    /\ changed = [n \in Nodes |-> FALSE]
    /\ model = [value |-> 1, trackers |-> <<>>]
    /\ tracker = NoTracker
    /\ select = NewSelect
    /\ cache = [n \in Nodes |-> NewLayoutCache]
    /\ dropped = {}
    /\ last = NoOp
    /\ seen = [n \in Nodes |-> [s \in Slots |-> NoCompute]]
    /\ InitTrack

NextArrange == \E input \in ArrangeInputs(attrs[1].main_axis) : ArrangeContainer(input)

SpecArrange == InitArrange /\ [][NextArrange]_vars

(***************************************************************************)
(* SpecBoxes: a childless container (node 1) of every spacing, arranged    *)
(* and asked for its final layout, by layout.rs and by element.rs.         *)
(***************************************************************************)
InitBoxes ==
    /\ \E margin \in {0, 1}, padding \in {0, 2}, border_size \in {0, 2} :
          attrs = [n \in Nodes |->
                     IF n = 1 THEN LayoutStyle(margin, padding, border_size)
                     ELSE LabelStyle]
    /\ InitLib([n \in Nodes |-> IF n = 1 THEN "Div" ELSE "Label"])
    /\ cache = [n \in Nodes |-> NewLayoutCache]
    /\ dropped = {}
    /\ last = NoOp
    /\ seen = [n \in Nodes |-> [s \in Slots |-> NoCompute]]
    /\ InitTrack

NextBoxes ==
    \/ \E input \in BoxInputs : ArrangeContainer(input)
    \/ GetFinal(1)
    \/ PropsGetFinal(1)

SpecBoxes == InitBoxes /\ [][NextBoxes]_vars

(***************************************************************************)
(* SpecInteract: InteractSets are combined with `|`.                       *)
(***************************************************************************)
NextInteract ==
    \/ \E a \in InteractSets, b \in InteractSets : Union(a, b)
    \/ \E a \in InteractSets, b \in InteractSets, c \in InteractSets : Reduce(a, b, c)

SpecInteract == Init /\ [][NextInteract]_vars

(***************************************************************************)
(* SpecGraph: dependency edges are registered between a signal and three   *)
(* observers in any shape, cycles included; observers are cleaned and      *)
(* observables triggered in any order.                                     *)
(***************************************************************************)
InitOnGraph ==
    /\ InitLib([n \in Nodes |-> IF n = 1 THEN "Div" ELSE "Label"])
    /\ InitLayout
    /\ InitGraph

NextGraph ==
    \/ \E x \in GraphObservables, o \in GraphObs : Attach(x, o)
    \/ \E o \in GraphObs : Settle(o)
    \/ \E x \in GraphObservables : TriggerFrom(x)

SpecGraph == InitOnGraph /\ [][NextGraph]_vars

(***************************************************************************)
(* SpecChain: NumNodes BoxLayouts whose holders call set_parent with the   *)
(* as_parent() of any BoxLayout, their own included, remove_parent,        *)
(* compute, invalidate and drop them.  Nothing runs after an invalidate()  *)
(* that does not return.                                                   *)
(***************************************************************************)
NextChain ==
    \/ \E n \in Nodes : ~Hung /\ ComputePass(n, Size(2, 1))
    \/ \E n \in Nodes : Invalidate(n)
    \/ \E n \in Nodes, p \in Nodes : ~Hung /\ SetParent(n, p)
    \/ \E n \in Nodes : ~Hung /\ RemoveParent(n)
    \/ \E n \in Nodes : ~Hung /\ Drop(n)

SpecChain == Init /\ [][NextChain]_vars

(***************************************************************************)
(* SpecRead: the signals are written, the cells brought up to date, and    *)
(* the application reads signal A and cell D1 itself, in any order.        *)
(***************************************************************************)
NextRead ==
    \/ \E s \in Signals, v \in SignalValues : Update(s, v)
    \/ \E d \in Cells : MaybeUpdate(d)
    \/ \E c \in {"A", "D1"}, how \in {"get", "track", "with"} : Read(how, c)

SpecRead == Init /\ [][NextRead]_vars

(***************************************************************************)
(* SpecMark: dependency edges are registered between three observers in    *)
(* any shape; the cells that own them are computed and invalidated.        *)
(***************************************************************************)
NextMark ==
    \/ \E x \in GraphObservables, o \in GraphObs : Attach(x, o)
    \/ \E o \in GraphObs : Settle(o)
    \/ \E o \in GraphObs : ComputedInvalidate(o)

SpecMark == InitOnGraph /\ [][NextMark]_vars

(***************************************************************************)
(* SpecWidgets: the Div over the Button over the Label, laid out and asked *)
(* for its interactions in any order.                                      *)
(***************************************************************************)
InitWidgetTree ==
    /\ InitLib([n \in Nodes |-> IF n = 1 THEN "Div" ELSE "Label"])
    /\ InitLayout
    /\ InitWidgetCells

NextWidgets ==
    \/ \E input \in WidgetInputs : RootLayout(input)
    \/ RootInteractions

SpecWidgets == InitWidgetTree /\ [][NextWidgets]_vars

(***************************************************************************)
(* SpecStale: a node and a child linked below it are computed,             *)
(* invalidated, asked for their final layout and drawn.                    *)
(***************************************************************************)
NextStale ==
    \/ \E n \in {1, 2}, m \in MeasuredSizes : ComputePass(n, m)
    \/ \E n \in {1, 2} : Invalidate(n)
    \/ SetParent(2, 1)
    \/ \E n \in {1, 2} : GetFinal(n)
    \/ \E n \in {1, 2} : ElementDraw(n)

SpecStale == Init /\ [][NextStale]_vars

(***************************************************************************)
(* SpecSwitch: a Div (node 1) holds a Select over two Labels and is the    *)
(* parent its selected option is linked to.  The application writes the    *)
(* Signal, updates the Select and lays the Div out.                        *)
(***************************************************************************)
InitSwitch ==
    /\ kind = [n \in Nodes |-> IF n = 1 THEN "Div" ELSE "Label"]
    /\ children = [n \in Nodes |-> IF n = 1 THEN <<Options[NewSelect.cached]>> ELSE <<>>]
    /\ root = NoNode
    /\ \E t \in {0, 5} : text = [n \in Nodes |-> IF n = Options[2] THEN t ELSE 3]
    /\ changed = [n \in Nodes |-> FALSE]
    /\ model = [value |-> 1, trackers |-> <<>>]
    /\ tracker = NoTracker
    /\ select = NewSelect
    /\ cache = [n \in Nodes |->
                  IF n = Options[NewSelect.cached]
                  THEN [NewLayoutCache EXCEPT !.parent = 1] ELSE NewLayoutCache]
    /\ attrs = [n \in Nodes |-> IF n = 1 THEN DivStyle ELSE LabelStyle]
    /\ dropped = {}
    /\ last = NoOp
    /\ seen = [n \in Nodes |-> [s \in Slots |-> NoCompute]]
    /\ InitTrack

NextSwitch ==
    \/ \E v \in ModelValues : ModelSet(v)
    \/ SelectUpdateModel
    \/ \E input \in HolderInputs : HolderComputeLayout(input)
    \/ \E n \in OptionNodes : Invalidate(n)

SpecSwitch == InitSwitch /\ [][NextSwitch]_vars

(***************************************************************************)
(* SpecWriter: next to the cell D1 there are two cells whose closures      *)
(* write a signal they have read.  The signals are written and the cells   *)
(* brought up to date in any order.                                        *)
(***************************************************************************)
InitWriter ==
    /\ InitLib([n \in Nodes |-> IF n = 1 THEN "Div" ELSE "Label"])
    /\ InitLayout
    /\ InitWriterTrack

NextWriter ==
    \/ \E s \in Signals, v \in SignalValues : Update(s, v)
    \/ MaybeUpdate("D1")
    \/ \E d \in WriterCells : WriterMaybeUpdate(d)

SpecWriter == InitWriter /\ [][NextWriter]_vars

(***************************************************************************)
(* SpecComputed2: the layout of the Div and of the Button is called with   *)
(* two inputs, and the Div is asked for its interactions, in any order.    *)
(***************************************************************************)
Computed2Inputs ==
    { FinalLayout(Rect(0, 0, 40, 30), 1), FinalLayout(Rect(5, 5, 40, 30), 1) }

NextComputed2 ==
    \/ \E w \in {"div", "button"}, input \in Computed2Inputs : Computed2MaybeUpdate(w, input)
    \/ RootInteractions

SpecComputed2 == InitWidgetTree /\ [][NextComputed2]_vars

(***************************************************************************)
(* SpecUpdate: a Div that holds a Div with a Label and a Label of its own. *)
(* The application writes the signals and updates the root, in any order.  *)
(***************************************************************************)
InitTree ==
    /\ InitLib([n \in Nodes |-> IF n = 1 THEN "Div" ELSE "Label"])
    /\ InitLayout
    /\ InitTreeTrack

NextTreeUpdate ==
    \/ \E s \in Signals, v \in SignalValues : TreeWrite(s, v)
    \/ RootUpdate

SpecUpdate == InitTree /\ [][NextTreeUpdate]_vars
(***************************************************************************)
(* Claims about the layout cache                                           *)
(***************************************************************************)
\* the k-th node above n along live parent links, NoNode past the end
RECURSIVE UpK(_, _, _, _)
UpK(c, gone, n, k) ==
    IF k = 0 THEN n
    ELSE LET q == UpK(c, gone, n, k - 1)
         IN  IF q = NoNode THEN NoNode
             ELSE IF c[q].parent \in Nodes \ gone THEN c[q].parent ELSE NoNode

\* n and every node reachable from n by following live parent links
SelfAndLiveAncestors(c, gone, n) ==
    { UpK(c, gone, n, k) : k \in 0..NumNodes } \ {NoNode}

AllInvalid(ci) ==
    /\ ~ci.cached_unknown.is_valid
    /\ ~ci.cached_known.is_valid
    /\ ~ci.cached_final.is_valid

AllValid(ci) ==
    /\ ci.cached_unknown.is_valid
    /\ ci.cached_known.is_valid
    /\ ci.cached_final.is_valid

\* C1 (cache hit law): a compute_layout_leaf call whose slot was last
\* computed with the same input, with no invalidate() reaching the node and
\* no other compute on that slot since, does not run measure and returns
\* the ComputedLayout of that earlier call; every other call runs measure.
C1_CacheHitLaw ==
    last.op = "compute_layout_leaf" =>
        /\ (last.prior.set /\ last.prior.input = last.input) =>
              (~last.ran /\ last.result = last.prior.result)
        /\ ~(last.prior.set /\ last.prior.input = last.input) => last.ran

\* a repeated call whose measure closure would have given another layout
C1_Witness ==
    /\ last.op = "compute_layout_leaf"
    /\ last.prior.set
    /\ last.prior.input = last.input
    /\ last.input.tag = "FinalLayout"
    /\ LeafLayout(attrs[last.node], last.input, last.measured) # last.result

\* C2: after invalidate() on node n, the three slots of n and of every node
\* reachable from n along live parent links are invalid.
C2_InvalidateReachesAncestors ==
    last.op = "invalidate" =>
        \A m \in SelfAndLiveAncestors(last.before, dropped, last.node) :
            AllInvalid(cache[m])

\* an invalidate() on a node whose parent and grandparent were fully valid
C2_Witness ==
    /\ last.op = "invalidate"
    /\ \E p, g \in Nodes \ {last.node} :
          /\ p # g
          /\ {p, g} \subseteq SelfAndLiveAncestors(last.before, dropped, last.node)
          /\ AllValid(last.before[p])
          /\ AllValid(last.before[g])

\* C3: invalidate() on node n changes no cache other than those of n and
\* its live ancestors: validity flags, stored inputs and cached results of
\* siblings, of sibling subtrees and of descendants of n stay as they were.
C3_InvalidateFrame ==
    last.op = "invalidate" =>
        \A m \in Nodes \ SelfAndLiveAncestors(last.before, dropped, last.node) :
            cache[m] = last.before[m]

\* an invalidate() on a node that has a fully valid sibling below a fully
\* valid parent
C3_Witness ==
    /\ last.op = "invalidate"
    /\ \E s \in Nodes \ {last.node} :
          /\ cache[s].parent \in Nodes \ dropped
          /\ cache[s].parent = cache[last.node].parent
          /\ AllValid(last.before[s])
          /\ AllValid(last.before[cache[s].parent])


\* scale_factor * (margin + padding + border_size), summed on each axis
SpacingOf(style, scale_factor) ==
    SumAxes(SizeRectScale(scale_factor,
                SizeRectAdd(SizeRectAdd(style.margin, style.padding),
                            SizeRectFrom(style.border_size))))

\* C19: on a cache miss compute_layout_leaf calls measure with the
\* available size less the spacing and returns a margin box whose size is
\* the measured size plus the spacing, at the origin for ComputeSize and at
\* the top-left of the allocated rectangle for FinalLayout.
C19_LeafAddsSpacing ==
    (last.op = "compute_layout_leaf" /\ last.ran)
        => LET spacing == SpacingOf(attrs[last.node], last.input.scale_factor)
               box == last.result.margin_box
           IN  /\ last.content_box = SizeSub(Available(last.input), spacing)
               /\ RectSize(box) = SizeAdd(last.measured, spacing)
               /\ IF last.input.tag = "ComputeSize"
                  THEN box.x = 0 /\ box.y = 0
                  ELSE box.x = last.input.allocated.x /\ box.y = last.input.allocated.y
(***************************************************************************)
(* Claims about the dependency graph                                       *)
(***************************************************************************)
\* the observers a dependents list upgrades to
LiveDependents(ob, deps) ==
    { deps[i] : i \in 1..Len(deps) } \cap { o \in ObsIds : ob[o].live }

\* the observers reachable from the set R along dependent edges that leave
\* an observer of `through`, in at most k more steps
RECURSIVE Reachable(_, _, _, _)
Reachable(ob, R, through, k) ==
    IF k = 0 THEN R
    ELSE Reachable(ob,
            R \cup UNION { LiveDependents(ob, ob[y].dependents) : y \in R \cap through },
            through, k - 1)

ObserverOf(d) == cell[d].as_observer
IsClean(d) == obs[ObserverOf(d)].is_dirty = Clean
WasClean == { o \in ObsIds : last.before[o].live /\ last.before[o].is_dirty = Clean }

\* C4 as stated: after trigger(o) every live Observer reachable from o along
\* dependent edges, through any observers, is Dirty.
C4_EveryReachableIsDirty ==
    last.op = "update" =>
        \A x \in Reachable(obs, LiveDependents(obs, sig[last.signal].dependents),
                           ObsIds, NumObs) :
            obs[x].is_dirty = Dirty

\* C4 amended: after trigger(o) every live Observer that is reachable from o
\* along dependent edges through observers that were Clean before the call
\* is Dirty; the traversal does not continue below an observer that was
\* already Dirty.
C4_ReachableThroughCleanIsDirty ==
    last.op = "update" =>
        \A x \in Reachable(obs, LiveDependents(obs, sig[last.signal].dependents),
                           WasClean, NumObs) :
            obs[x].is_dirty = Dirty

\* a trigger that dirtied a Clean observer it reached only through another
\* Clean observer
C4_Witness ==
    /\ last.op = "update"
    /\ \E y \in LiveDependents(obs, sig[last.signal].dependents) :
       \E x \in LiveDependents(obs, obs[y].dependents) :
          /\ x \notin LiveDependents(obs, sig[last.signal].dependents)
          /\ {x, y} \subseteq WasClean
          /\ obs[x].is_dirty = Dirty

\* C5: whenever the Observer of D1, whose closure reads the model only
\* through tracked Signal reads, is Clean between operations, its cached
\* value is what the closure returns for the current Signal values; and a
\* write to a Signal that its latest computation read leaves it Dirty.
C5_CleanDerivedIsCurrent ==
    /\ IsClean("D1") =>
          cell["D1"].value = ValueD1(sig["A"].value, sig["C"].value)
    /\ (last.op = "update" /\ last.signal \in tracked["D1"].latest) =>
          ~IsClean("D1")

\* D1 is Clean and caches a value it computed from both signals
C5_Witness ==
    /\ IsClean("D1")
    /\ tracked["D1"].latest = {"A", "C"}
    /\ cell["D1"].value = 1
    /\ last.op = "maybe_update"

\* C6 (dependency pruning): a write to a Signal that the latest computation
\* of D1 did not read leaves the Observer of D1 Clean if it was Clean, also
\* when an earlier computation of D1 read that Signal.
C6_PrunedSignalDoesNotDirty ==
    ( /\ last.op = "update"
      /\ last.signal \notin tracked["D1"].latest
      /\ last.before[ObserverOf("D1")].is_dirty = Clean )
    => IsClean("D1")

\* a write to A after D1 read A in its previous computation and not in its
\* latest one
C6_Witness ==
    /\ last.op = "update"
    /\ last.signal = "A"
    /\ "A" \in tracked["D1"].previous
    /\ "A" \notin tracked["D1"].latest
    /\ last.before[ObserverOf("D1")].is_dirty = Clean
    /\ IsClean("D1")

\* the number of times the closure of cell d ran in the last operation
TimesComputed(d) == Cardinality({ i \in 1..Len(last.computes) : last.computes[i] = d })

\* what the closure of cell d returns in the current state
ClosureValue(d) ==
    IF d = "D1" THEN ValueD1(sig["A"].value, sig["C"].value)
    ELSE 10 * sig["A"].value + cell["D1"].value

\* C7: Derived::maybe_update runs the closure exactly once, stores its
\* result, replaces the Observer and returns true when the Observer is Dirty
\* on entry; when it is Clean on entry it runs nothing, leaves value and
\* Observer as they were and returns false.  A Derived that has not been
\* updated since its construction is Dirty.
C7_MaybeUpdateContract ==
    /\ \A d \in Cells : tracked[d].fresh => ~IsClean(d)
    /\ last.op = "maybe_update" =>
          /\ last.was_dirty =>
                /\ TimesComputed(last.cell) = 1
                /\ last.returned
                /\ cell[last.cell].value = ClosureValue(last.cell)
                /\ ObserverOf(last.cell) # last.before.as_observer
                /\ IsClean(last.cell)
          /\ ~last.was_dirty =>
                /\ last.computes = <<>>
                /\ ~last.returned
                /\ cell[last.cell] = last.before
          /\ last.fresh => last.was_dirty

\* a maybe_update on a Dirty cell that had been computed before and whose
\* value changed
C7_Witness ==
    /\ last.op = "maybe_update"
    /\ last.was_dirty
    /\ ~last.fresh
    /\ last.returned
    /\ cell[last.cell].value # last.before.value

\* C8: every register() attaches exactly the Observer of the innermost
\* run_and_track that is running, before, during and after a nested
\* run_and_track; and when a run_and_track returns, the scope is the one of
\* the run_and_track around it, none for the outermost.
C8_ScopesNest ==
    /\ scope = NoObs
    /\ last.op = "maybe_update" =>
          /\ \A i \in 1..Len(last.regs) :
                last.regs[i].added =
                    IF last.regs[i].inner = NoObs THEN <<>> ELSE <<last.regs[i].inner>>
          /\ \A i \in 1..Len(last.exits) :
                last.exits[i].scope = last.exits[i].outer

\* the closure of D2 registered, ran the computation of D1, which
\* registered, and registered again afterwards
C8_Witness ==
    /\ last.op = "maybe_update"
    /\ last.computes = <<"D2", "D1">>
    /\ Len(last.exits) = 2
    /\ Len(last.regs) >= 3
    /\ last.regs[1].inner # last.regs[2].inner
    /\ last.regs[Len(last.regs)].inner = last.regs[1].inner
    /\ last.regs[Len(last.regs)].on.kind = "observer"


\* C12: an update(model) of the Select that follows a tracked write to the
\* signal its selector read re-evaluates the selector: when it returns the
\* selector is Clean and its value is selector(model), the value of A.
C12_UpdateReevaluatesSelector ==
    (last.op = "select_update" /\ last.after_write /\ last.had_read)
        => /\ IsClean("selector")
           /\ cell["selector"].value = sig["A"].value
(***************************************************************************)
(* Claims about the widget tree                                            *)
(***************************************************************************)
\* the Divs that own node n, directly or through other Divs
RECURSIVE OwnersOf(_, _)
OwnersOf(n, k) ==
    IF k = 0 THEN {}
    ELSE LET direct == { d \in Nodes : \E i \in 1..Len(children[d]) : children[d][i] = n }
         IN  direct \cup UNION { OwnersOf(d, k - 1) : d \in direct }

\* the root and every element below it
InTree == { n \in Nodes : root # NoNode /\ (n = root \/ root \in OwnersOf(n, NumNodes)) }

\* C9: after Div::add_child(c) the layout cache of c has a parent link to
\* the cache of the Div, and so the invalidate() of a Label::update_model
\* that recomputes its text also invalidates every Div that owns the Label.
C9_LinksMirrorTheTree ==
    /\ \A d \in Nodes : \A i \in 1..Len(children[d]) :
          cache[children[d][i]].parent = d
    /\ last.op = "frame" =>
          \A n \in last.recomputed : \A d \in OwnersOf(n, NumNodes) :
              AllInvalid(last.updated[d])

\* C10: after a redraw (Root::update_model, then Root::compute_layout) the
\* final slot of the root and of every element of the tree is valid, and
\* every Label whose text the redraw recomputed has been measured by it.
C10_FrameLaysOutEveryElement ==
    last.op = "frame" =>
        /\ \A n \in InTree : cache[n].cached_final.is_valid
        /\ last.recomputed \subseteq last.measured


\* C11: when Select::update_model changes the selected index from i to j
\* while option i holds a parent link to cache P, option i has no parent
\* link afterwards and the link of option j refers to P; and a later
\* invalidate() on option j, its link still being the one that was moved
\* and P being alive, leaves all three slots of P invalid.
C11_SelectMovesTheParentLink ==
    /\ (/\ last.op = "select_update_model"
        /\ last.old_index # last.index
        /\ last.before[Options[last.old_index]].parent # NoNode)
       => /\ cache[Options[last.old_index]].parent = NoNode
          /\ cache[Options[last.index]].parent
                 = last.before[Options[last.old_index]].parent
    /\ (/\ last.op = "invalidate"
        /\ last.node = Options[select.cached]
        /\ select.moved # NoNode
        /\ last.before[last.node].parent = select.moved
        /\ select.moved \notin dropped)
       => AllInvalid(cache[select.moved])

\* an invalidate() on the option that received the link has reached a
\* parent whose three slots were valid
C11_Witness ==
    /\ last.op = "invalidate"
    /\ last.node = Options[select.cached]
    /\ select.moved # NoNode
    /\ last.before[last.node].parent = select.moved
    /\ select.moved \notin dropped
    /\ AllValid(last.before[select.moved])
    /\ AllInvalid(cache[select.moved])

\* the extent of a rectangle along an axis, and where it starts and ends
Extent(r, axis) == SizeAxis(RectSize(r), axis)
StartOf(r, axis) == IF axis = "Horizontal" THEN RectLeft(r) ELSE RectTop(r)
EndOf(r, axis) == IF axis = "Horizontal" THEN RectRight(r) ELSE RectBottom(r)

\* the rectangle the last FinalLayout pass of the container gave child n
AllocatedTo(n) == cache[n].cached_final.with_input.allocated
MainSizingOf(n) ==
    IF attrs[1].main_axis = "Vertical" THEN attrs[n].height ELSE attrs[n].width

\* the container has no spacing and the last call arranged it within a
\* main-axis extent of 100, its own sizing being Fit or Fixed(100)
ArrangedWithin100 ==
    /\ last.op = "compute_layout"
    /\ last.input.tag = "FinalLayout"
    /\ ~last.panicked
    /\ SumAxes(SizeRectAdd(SizeRectAdd(attrs[1].margin, attrs[1].padding),
                           SizeRectFrom(attrs[1].border_size))) = Size(0, 0)
    /\ Extent(last.input.allocated, attrs[1].main_axis) = 100
    /\ MainSizingOf(1) \in {Fit, Fixed(100)}

\* C13: a container without spacing and of main-axis size 100 whose only
\* children are two Expand children gives each child a main-axis extent of
\* 50 in the FinalLayout pass, the second child starting where the first
\* ends.
C13_ExpandSharesEqually ==
    (/\ ArrangedWithin100
     /\ children[1] = <<2, 3>>
     /\ MainSizingOf(2) = Expand /\ MainSizingOf(3) = Expand)
    => LET axis == attrs[1].main_axis
       IN  /\ cache[2].cached_final.is_valid /\ cache[3].cached_final.is_valid
           /\ Extent(AllocatedTo(2), axis) = 50
           /\ Extent(AllocatedTo(3), axis) = 50
           /\ IF attrs[1].main_direction = "Positive"
              THEN StartOf(AllocatedTo(3), axis) = EndOf(AllocatedTo(2), axis)
              ELSE EndOf(AllocatedTo(3), axis) = StartOf(AllocatedTo(2), axis)

\* C14: a container without spacing, justified Center and of main-axis size
\* 100, whose single child is not Expand and measures 20 along the main
\* axis, gives the child a rectangle that starts 40 after the start of the
\* container's allocated rectangle.
C14_CenterLeavesHalfTheSlack ==
    (/\ ArrangedWithin100
     /\ attrs[1].main_justify = "Center"
     /\ children[1] = <<2>>
     /\ MainSizingOf(2) # Expand
     /\ Extent(cache[2].cached_unknown.cached.margin_box, attrs[1].main_axis) = 20)
    => LET axis == attrs[1].main_axis
       IN  /\ cache[2].cached_final.is_valid
           /\ StartOf(AllocatedTo(2), axis)
                  = StartOf(last.input.allocated, axis) + 40

\* rectangle a lies within rectangle b
Within(a, b) ==
    /\ RectLeft(b) <= RectLeft(a) /\ RectRight(a) <= RectRight(b)
    /\ RectTop(b) <= RectTop(a) /\ RectBottom(a) <= RectBottom(b)

\* C15: for every style, scale factor and cached final margin box, the one
\* smaller than the spacing and the never-computed zero box included, the
\* Layout of get_final_layout has content_box within padding_box within
\* border_box within margin_box.
C15_BoxesNest ==
    last.op = "get_final_layout"
        => /\ Within(last.layout.content_box, last.layout.padding_box)
           /\ Within(last.layout.padding_box, last.layout.border_box)
           /\ Within(last.layout.border_box, last.layout.margin_box)

\* C16: InteractSet::default() is an identity of `|`: default | X and
\* X | default have the click flag and the click_area of X, for every X.
C16_DefaultIsIdentity ==
    /\ (last.op = "bitor" /\ last.lhs = EmptyInteractSet) => last.result = last.rhs
    /\ (last.op = "bitor" /\ last.rhs = EmptyInteractSet) => last.result = last.lhs

\* the smallest rectangle that contains rectangles a and b
SmallestAround(a, b) ==
    LET left == IF RectLeft(a) <= RectLeft(b) THEN RectLeft(a) ELSE RectLeft(b)
        top == IF RectTop(a) <= RectTop(b) THEN RectTop(a) ELSE RectTop(b)
    IN  Rect(left, top, FMax(RectRight(a), RectRight(b)) - left,
             FMax(RectBottom(a), RectBottom(b)) - top)

\* C17: the click_area of A | B is the bounding box of the two click areas:
\* it contains both and is the smallest rectangle that does.
C17_UnionIsBoundingBox ==
    last.op = "bitor"
        => /\ Within(last.lhs.click_area, last.result.click_area)
           /\ Within(last.rhs.click_area, last.result.click_area)
           /\ last.result.click_area
                  = SmallestAround(last.lhs.click_area, last.rhs.click_area)

\* C18: `|` is associative, and the reduction a Div performs over its
\* children gives the same InteractSet for every grouping and every order.
C18_UnionIsMonoid ==
    last.op = "reduce"
        => /\ last.left = last.right
           /\ last.forward = last.backward

\* C20: compute_layout_with_children fails its assertion exactly when it
\* is called on a cache miss with a FinalLayout whose allocated rectangle
\* is unbounded along the main axis; with a ComputeSize input, unbounded
\* or not, it returns a result.
C20_AssertsOnUnboundedFinal ==
    last.op = "compute_layout"
        => (last.panicked <=>
               /\ last.ran
               /\ last.input.tag = "FinalLayout"
               /\ Extent(last.input.allocated, attrs[1].main_axis) = Inf)

\* the assertion has failed on a container that an earlier call had
\* measured with an unbounded main axis
C20_Witness ==
    /\ last.op = "compute_layout"
    /\ last.panicked
    /\ cache[1].cached_unknown.is_valid
    /\ Extent(FromTopleftSize(0, 0, cache[1].cached_unknown.with_input.available),
              attrs[1].main_axis) = Inf

(***************************************************************************)
(* Claims about reading, termination and the order of the passes           *)
(***************************************************************************)
ZeroSized(r) == r.w = 0 /\ r.h = 0

\* C21: get_final_layout on a node whose final slot has never been computed
\* returns Err with a Layout whose margin, border, padding and content
\* boxes are zero-sized, for every margin, padding and border_size; in
\* layout.rs and in mod props of element.rs.
C21_UncomputedReadsZero ==
    (/\ last.op \in {"get_final_layout", "props_get_final_layout"}
     /\ cache[last.node].cached_final = NewInvalid)
        => /\ ~last.ok
           /\ ZeroSized(last.layout.margin_box)
           /\ ZeroSized(last.layout.border_box)
           /\ ZeroSized(last.layout.padding_box)
           /\ ZeroSized(last.layout.content_box)

\* the same for the get_final_layout of layout.rs alone
C21_LayoutRsReadsZero ==
    (/\ last.op = "get_final_layout"
     /\ cache[last.node].cached_final = NewInvalid)
        => /\ ~last.ok
           /\ ZeroSized(last.layout.margin_box)
           /\ ZeroSized(last.layout.border_box)
           /\ ZeroSized(last.layout.padding_box)
           /\ ZeroSized(last.layout.content_box)

\* the observers whose flag the last operation changed from Clean to Dirty
NewlyDirty ==
    { o \in ObsIds : last.before[o].is_dirty = Clean /\ obs[o].is_dirty = Dirty }

\* C22: trigger returns on every dependency graph, with reconverging paths
\* and with cycles; it pushes no Observer twice, pushes exactly the
\* Observers it turns from Clean to Dirty, and turns no flag back.
C22_TriggerReturns ==
    last.op = "trigger" =>
        /\ last.returned
        /\ \A i, j \in 1..Len(last.pushed) : last.pushed[i] = last.pushed[j] => i = j
        /\ { last.pushed[i] : i \in 1..Len(last.pushed) } = NewlyDirty
        /\ \A o \in ObsIds : last.before[o].is_dirty = Dirty => obs[o].is_dirty = Dirty

\* a trigger on the as_observable of an Observer that lies on a cycle: the
\* walk comes back to the Observer it started from, pushes it, and meets
\* the already Dirty dependent again
C22_Witness ==
    /\ last.op = "trigger"
    /\ last.on.kind = "observer"
    /\ Len(last.pushed) >= 2
    /\ last.on.ob \in { last.pushed[i] : i \in 1..Len(last.pushed) }

\* the nodes above n along the parent links of c, dropped ones included,
\* in at most k steps
RECURSIVE LinkedAbove(_, _, _)
LinkedAbove(c, n, k) ==
    IF k = 0 \/ c[n].parent = NoNode THEN {}
    ELSE {c[n].parent} \cup LinkedAbove(c, c[n].parent, k - 1)

\* C23: invalidate() returns for every parent chain that set_parent and
\* remove_parent can build; it invalidates the node and its ancestors up to
\* the last live one, and changes no other cache, none above a dropped
\* ancestor in particular.
C23_InvalidateReturns ==
    last.op = "invalidate" =>
        /\ last.returned
        /\ \A m \in SelfAndLiveAncestors(last.before, dropped, last.node) :
              AllInvalid(cache[m])
        /\ \A m \in Nodes \ SelfAndLiveAncestors(last.before, dropped, last.node) :
              cache[m] = last.before[m]

\* the part of C23 about a dropped ancestor: an invalidate() that returns
\* changes no cache above the first dropped ancestor
C23_StopsAtDropped ==
    (last.op = "invalidate" /\ last.returned) =>
        \A d \in dropped \cap LinkedAbove(last.before, last.node, NumNodes) :
            (d \notin SelfAndLiveAncestors(last.before, dropped, last.node))
                => \A m \in {d} \cup LinkedAbove(last.before, d, NumNodes) :
                      (m \notin SelfAndLiveAncestors(last.before, dropped, last.node))
                          => cache[m] = last.before[m]

\* C24: a read (get, track, with) made while no tracking scope is active
\* changes no dependents list and no dirty flag; a read made inside a scope
\* pushes exactly one Weak, to the Observer of the scope, on the dependents
\* of the Observable that is read, and changes nothing else in the graph.
C24_ReadRegistersInScopeOnly ==
    /\ (last.op = "read" /\ ~last.in_scope) =>
          /\ obs = last.before.obs
          /\ sig = last.before.sig
          /\ \A i \in 1..Len(last.regs) :
                last.regs[i].added = <<>> /\ last.regs[i].rest_same
    /\ last.op = "maybe_update" =>
          \A i \in 1..Len(last.regs) :
              /\ last.regs[i].inner # NoObs
              /\ last.regs[i].added = <<last.regs[i].inner>>
              /\ last.regs[i].rest_same

\* the application reads, outside every scope, a signal that a Clean cell
\* depends on
C24_Witness ==
    /\ last.op = "read"
    /\ last.how = "with"
    /\ ~last.in_scope
    /\ Len(last.regs) = 1
    /\ sig[last.on].dependents # <<>>
    /\ \E d \in Cells : IsClean(d) /\ last.on \in tracked[d].latest

\* C25: mark_dirty on an Observer that is already Dirty changes no flag; on
\* a Clean Observer it sets it Dirty and triggers its dependents: every
\* Observer below it along a chain of dependent edges through Observers
\* that were Clean is Dirty afterwards, and no flag elsewhere changes.
C25_MarkDirtyPropagatesOnce ==
    last.op = "mark_dirty" =>
        IF last.before[last.observer].is_dirty = Dirty
        THEN obs = last.before
        ELSE /\ obs[last.observer].is_dirty = Dirty
             /\ \A x \in Reachable(obs, LiveDependents(obs, obs[last.observer].dependents),
                                   WasClean, NumObs) :
                   obs[x].is_dirty = Dirty
             /\ \A x \in ObsIds :
                   obs[x].is_dirty # last.before[x].is_dirty
                       => x \in {last.observer}
                              \cup Reachable(obs, LiveDependents(obs, obs[last.observer].dependents),
                                             ObsIds, NumObs)

\* a mark_dirty on a Clean Observer above a chain of two Clean Observers,
\* the second of which depends on the first only
C25_Witness ==
    /\ last.op = "mark_dirty"
    /\ \E x, y \in ObsIds \ {last.observer} :
          /\ x # y
          /\ {last.observer, x, y} \subseteq WasClean
          /\ x \in LiveDependents(obs, obs[last.observer].dependents)
          /\ y \in LiveDependents(obs, obs[x].dependents)
          /\ y \notin LiveDependents(obs, obs[last.observer].dependents)
          /\ obs[x].is_dirty = Dirty /\ obs[y].is_dirty = Dirty

\* a mark_dirty on a Dirty Observer that has a Clean dependent
C25_DirtyAboveClean ==
    /\ last.op = "mark_dirty"
    /\ last.before[last.observer].is_dirty = Dirty
    /\ \E x \in LiveDependents(obs, obs[last.observer].dependents) : obs[x].is_dirty = Clean

\* C27: stale dependency edges do not accumulate: over write and
\* maybe_update cycles the dependents list of a Signal has no more entries
\* than there are live Observers reading it; the entry of a discarded
\* Observer is not kept.
C27_NoStaleEntries ==
    \A s \in Signals :
        Len(sig[s].dependents) <= Cardinality(LiveDependents(obs, sig[s].dependents))

\* the children of the container, node 1
Kids == { children[1][i] : i \in 1..Len(children[1]) }
\* the positions in the log of the last call of the compute_layout calls
\* on node k with an input of shape `tag`
CallsOn(k, tag) ==
    { i \in 1..Len(last.log) : last.log[i].node = k /\ last.log[i].input.tag = tag }
\* the ComputeSize calls on the children have an unbounded main axis
MeasuredUnbounded ==
    \A k \in Kids : \A i \in CallsOn(k, "ComputeSize") :
        SizeAxis(last.log[i].input.available, attrs[1].main_axis) = Inf
\* every ComputeSize call on a child comes before every FinalLayout call
MeasureBeforeArrange ==
    \A j, k \in Kids : \A i \in CallsOn(j, "ComputeSize"), f \in CallsOn(k, "FinalLayout") :
        i < f
\* a ComputeSize miss: ComputeSize calls only, no final slot of a child changed
MeasureOnly ==
    /\ \A k \in Kids : Cardinality(CallsOn(k, "ComputeSize")) = 1
                       /\ CallsOn(k, "FinalLayout") = {}
    /\ MeasuredUnbounded
    /\ \A k \in Kids : last.after[k].cached_final = last.before[k].cached_final

\* C28 (two-pass order): on a FinalLayout cache miss every child receives
\* exactly one ComputeSize call, unbounded on the main axis, and then
\* exactly one FinalLayout call, all ComputeSize calls before the first
\* FinalLayout call; on a ComputeSize cache miss the children receive
\* ComputeSize calls only and no final slot of a child is changed.  A
\* FinalLayout miss that fails the assertion on the main axis (C20) ends
\* after the measure pass, like a ComputeSize miss.
C28_TwoPasses ==
    (last.op = "compute_layout" /\ last.ran) =>
        IF last.input.tag = "FinalLayout" /\ ~last.panicked
        THEN /\ \A k \in Kids : /\ Cardinality(CallsOn(k, "ComputeSize")) = 1
                                /\ Cardinality(CallsOn(k, "FinalLayout")) = 1
             /\ MeasuredUnbounded
             /\ MeasureBeforeArrange
        ELSE MeasureOnly

\* a FinalLayout cache miss of a container over two children, arranged
\* without a failed assertion
C28_Witness ==
    /\ last.op = "compute_layout"
    /\ last.ran
    /\ last.input.tag = "FinalLayout"
    /\ ~last.panicked
    /\ Len(children[1]) = 2
    /\ Len(last.log) = 5

\* the slot the claim names for an input: unknown for ComputeSize with an
\* infinite width or height, known for ComputeSize with both finite, final
\* for FinalLayout
NamedSlot(input) ==
    CASE input.tag = "FinalLayout" -> "cached_final"
      [] input.tag = "ComputeSize"
            /\ (input.available.horizontal = Inf \/ input.available.vertical = Inf)
         -> "cached_unknown"
      [] OTHER -> "cached_known"

\* C29: a compute call works on the slot its input names and on no other:
\* afterwards that slot is valid and holds the input and the result, and
\* the validity, stored input and result of the other two slots are as
\* before; so every slot computed since the last invalidate() still hits
\* for the input it was computed with.
C29_SlotsAreIndependent ==
    /\ last.op = "compute_layout_leaf" =>
          /\ cache[last.node][NamedSlot(last.input)] =
                [is_valid |-> TRUE, with_input |-> last.input,
                 cached |-> last.result]
          /\ \A s \in Slots \ {NamedSlot(last.input)} :
                cache[last.node][s] = last.before[s]
    /\ \A n \in Nodes, s \in Slots :
          seen[n][s].set => CacheHit(cache[n][s], seen[n][s].input)

\* the three slots have each been computed, and a call with an unbounded
\* height is repeated and hits
C29_Witness ==
    /\ last.op = "compute_layout_leaf"
    /\ ~last.ran
    /\ last.input.tag = "ComputeSize"
    /\ last.input.available.horizontal # Inf
    /\ last.input.available.vertical = Inf
    /\ \A s \in Slots : seen[last.node][s].set

\* the last three calls were compute_layout_leaf calls on one node with
\* the inputs A, B, A, where A and B differ and select the same slot
CalledABA ==
    /\ last.op = "compute_layout_leaf"
    /\ IF last.prev.set /\ last.prev2.set
       THEN /\ last.prev.node = last.node
            /\ last.prev2.node = last.node
            /\ last.prev2.input = last.input
            /\ last.prev.input # last.input
            /\ NamedSlot(last.prev.input) = NamedSlot(last.input)
       ELSE FALSE

\* C30: a slot remembers only the input of its most recent computation:
\* in the sequence A, B, A on one slot with no invalidate() in between the
\* call with B and the second call with A both run measure, the first call
\* with A runs it too when the slot was invalid before, and the slot ends
\* valid with stored input A.
C30_SlotRemembersLastInputOnly ==
    CalledABA =>
        /\ last.prev.ran
        /\ last.ran
        /\ ~last.prev2.was_valid => last.prev2.ran
        /\ cache[last.node][NamedSlot(last.input)].is_valid
        /\ cache[last.node][NamedSlot(last.input)].with_input = last.input

\* A, B, A on a slot that was invalid: measure ran three times
C30_Witness ==
    /\ CalledABA
    /\ ~last.prev2.was_valid
    /\ last.prev2.ran /\ last.prev.ran /\ last.ran

\* the interactions cells of the Button and of the Div above it
InteractionCells == {"button.interactions", "div.interactions_cache"}

\* before the last operation the interactions of the Button and of the Div
\* had been computed and nothing had dirtied them since
InteractionsWereComputed ==
    \A d \in InteractionCells :
        last.before[last.cells[d].as_observer].is_dirty = Clean

\* the last operation was a layout call that gave the Button an input other
\* than the one it held
ButtonLaidOutAnew ==
    /\ last.op = "layout"
    /\ cell["button.layout_cache"].input # last.cells["button.layout_cache"].input

\* the layout call leaves the interactions cells Dirty
C26_LayoutDirtiesInteractions ==
    (ButtonLaidOutAnew /\ InteractionsWereComputed)
        => \A d \in InteractionCells : IsDirty([obs |-> obs, cell |-> cell], d)

\* the set interactions() returns covers the border box the Button has now
C26_ClickAreaCoversButton ==
    (last.op = "interactions" /\ cell["button.layout_cache"].input # DefaultLayoutInput)
        => Within(cell["button.layout_cache"].value.border_box, last.result.click_area)

\* C26: once the interactions of a Button and of the Div above it have been
\* computed, a later Button::layout call with a different LayoutInput leaves
\* the interactions cell of the Button and the interactions_cache of the
\* Div Dirty, and the next interactions() call returns a set whose
\* click_area includes the new border_box of the Button.
C26_InteractionsFollowLayout ==
    /\ C26_LayoutDirtiesInteractions
    /\ C26_ClickAreaCoversButton

\* the layout of the Button had been computed, and the observer of its
\* interactions cell is registered on the observer its layout_cache holds
ReadsCurrentLayout ==
    /\ last.before[last.cells["button.layout_cache"].as_observer].is_dirty = Clean
    /\ \E i \in 1..Len(last.before[last.cells["button.layout_cache"].as_observer].dependents) :
        last.before[last.cells["button.layout_cache"].as_observer].dependents[i]
            = last.cells["button.interactions"].as_observer

\* C26, when the interactions were computed from the layout_cache observer
\* the Button still holds: the layout call leaves both cells Dirty
C26_DirtyWhenComputedAfterLayout ==
    (ButtonLaidOutAnew /\ InteractionsWereComputed /\ ReadsCurrentLayout)
        => \A d \in InteractionCells : IsDirty([obs |-> obs, cell |-> cell], d)

\* a relayout in frame order has happened
C26_RelayoutSeen == ButtonLaidOutAnew /\ InteractionsWereComputed /\ ReadsCurrentLayout

\* C26, for a set that interactions() has just recomputed from a computed
\* layout: its click_area covers the border box of the Button
C26_RecomputedAreaCoversButton ==
    (/\ last.op = "interactions"
     /\ last.computes # <<>>
     /\ last.before[last.cells["button.layout_cache"].as_observer].is_dirty = Clean)
        => Within(cell["button.layout_cache"].value.border_box, last.result.click_area)

(***************************************************************************)
(* Claims about the arrange pass                                           *)
(***************************************************************************)
\* the last call was a FinalLayout miss of the container that reached the
\* second loop
Arranged ==
    /\ last.op = "compute_layout"
    /\ last.ran
    /\ last.input.tag = "FinalLayout"
    /\ ~last.panicked

\* the content box of the container: the margin box it returned less its
\* margin, padding and border
ContainerContentBox ==
    ShrinkBy(last.result.margin_box,
             SizeRectScale(last.input.scale_factor,
                 SizeRectAdd(SizeRectAdd(attrs[1].margin, attrs[1].padding),
                             SizeRectFrom(attrs[1].border_size))))

\* C31: in the arrange pass the rectangles of the children are contiguous
\* and do not overlap along the main axis, in child order: with Positive
\* the first child starts at the main-axis start of the content box and
\* each next child starts where the one before ends; with Negative the
\* first child ends at the main-axis end of the content box and each next
\* child ends where the one before starts.
C31_ChildrenAreContiguous ==
    Arranged =>
        LET axis == attrs[1].main_axis
            kids == children[1]
        IN  IF attrs[1].main_direction = "Positive"
            THEN /\ StartOf(AllocatedTo(kids[1]), axis) = StartOf(ContainerContentBox, axis)
                 /\ \A i \in 2..Len(kids) :
                       /\ StartOf(AllocatedTo(kids[i]), axis)
                             = EndOf(AllocatedTo(kids[i - 1]), axis)
                       /\ StartOf(AllocatedTo(kids[i]), axis)
                             <= EndOf(AllocatedTo(kids[i]), axis)
            ELSE /\ EndOf(AllocatedTo(kids[1]), axis) = EndOf(ContainerContentBox, axis)
                 /\ \A i \in 2..Len(kids) :
                       /\ EndOf(AllocatedTo(kids[i]), axis)
                             = StartOf(AllocatedTo(kids[i - 1]), axis)
                       /\ StartOf(AllocatedTo(kids[i]), axis)
                             <= EndOf(AllocatedTo(kids[i]), axis)

\* two children of positive main extent arranged in Negative direction
C31_Witness ==
    /\ Arranged
    /\ attrs[1].main_direction = "Negative"
    /\ Len(children[1]) = 2
    /\ \A k \in Kids : Extent(AllocatedTo(k), attrs[1].main_axis) > 0

\* C32: with cross_justify Max the rectangle of every child ends at the
\* cross-axis end of the content box the container is allocated, and with
\* Center it is centred in that content box, for every allocated cross
\* extent, one larger than the intrinsic cross size of the container
\* included.
C32_CrossJustifyUsesContentBox ==
    (Arranged /\ Extent(ContainerContentBox, Cross(attrs[1].main_axis)) # Inf) =>
        LET cross == Cross(attrs[1].main_axis)
        IN  \A k \in Kids :
                CASE attrs[1].cross_justify = "Max" ->
                        EndOf(AllocatedTo(k), cross) = EndOf(ContainerContentBox, cross)
                  [] attrs[1].cross_justify = "Center" ->
                        StartOf(AllocatedTo(k), cross) - StartOf(ContainerContentBox, cross)
                            = (Extent(ContainerContentBox, cross)
                                  - Extent(AllocatedTo(k), cross)) \div 2
                  [] OTHER -> TRUE

\* the same, when the content box is exactly as large across as the
\* intrinsic cross size of the container: the largest cross extent measured
\* of a child
IntrinsicCross ==
    LET cross == Cross(attrs[1].main_axis)
    IN  CHOOSE m \in { Extent(cache[k].cached_unknown.cached.margin_box, cross) : k \in Kids } :
            \A k \in Kids : Extent(cache[k].cached_unknown.cached.margin_box, cross) <= m
C32_CrossJustifyWithinIntrinsic ==
    (/\ Arranged
     /\ Extent(ContainerContentBox, Cross(attrs[1].main_axis)) = IntrinsicCross)
     => LET cross == Cross(attrs[1].main_axis)
        IN  \A k \in Kids :
                CASE attrs[1].cross_justify = "Max" ->
                        EndOf(AllocatedTo(k), cross) = EndOf(ContainerContentBox, cross)
                  [] attrs[1].cross_justify = "Center" ->
                        StartOf(AllocatedTo(k), cross) - StartOf(ContainerContentBox, cross)
                            = (Extent(ContainerContentBox, cross)
                                  - Extent(AllocatedTo(k), cross)) \div 2
                  [] OTHER -> TRUE
C32_IntrinsicSeen ==
    /\ Arranged
    /\ attrs[1].cross_justify = "Max"
    /\ Extent(ContainerContentBox, Cross(attrs[1].main_axis)) = IntrinsicCross

\* the main-axis extent child k measured in the first loop
MeasuredMain(k) == Extent(cache[k].cached_unknown.cached.margin_box, attrs[1].main_axis)

RECURSIVE SumOver(_, _)
\* the sum of f[k] over the children k in S
SumOver(f, S) ==
    IF S = {} THEN 0
    ELSE LET k == CHOOSE x \in S : TRUE IN f[k] + SumOver(f, S \ {k})

\* the intrinsic main-axis size of the container: its Fixed size, or what
\* its children measured together
IntrinsicMain ==
    IF MainSizingOf(1).tag = "Fixed"
    THEN last.input.scale_factor * MainSizingOf(1).size
    ELSE SumOver([k \in Kids |-> MeasuredMain(k)], Kids)

\* the container was arranged in more main-axis room than its intrinsic
\* size, and a child is Expand
ExpandsIntoSlack ==
    /\ Arranged
    /\ \E k \in Kids : MainSizingOf(k) = Expand
    /\ Extent(ContainerContentBox, attrs[1].main_axis) > IntrinsicMain

\* C33: when the allocated main-axis content extent exceeds the intrinsic
\* one and a child is Expand, the main-axis extents allocated to the
\* children sum to the main extent of the allocated content box.
C33_ExpandFillsTheContentBox ==
    ExpandsIntoSlack =>
        SumOver([k \in Kids |-> Extent(AllocatedTo(k), attrs[1].main_axis)], Kids)
            = Extent(ContainerContentBox, attrs[1].main_axis)

\* the same, when every Expand child measured nothing along the main axis
C33_FillsWhenExpandMeasuresZero ==
    (ExpandsIntoSlack /\ \A k \in Kids : MainSizingOf(k) = Expand => MeasuredMain(k) = 0) =>
        SumOver([k \in Kids |-> Extent(AllocatedTo(k), attrs[1].main_axis)], Kids)
            = Extent(ContainerContentBox, attrs[1].main_axis)
C33_ZeroExpandSeen ==
    /\ ExpandsIntoSlack
    /\ \A k \in Kids : MainSizingOf(k) = Expand => MeasuredMain(k) = 0
    /\ \E k \in Kids : MainSizingOf(k) # Expand /\ MeasuredMain(k) > 0

(***************************************************************************)
(* Claims about invalidation and drawing                                   *)
(***************************************************************************)
\* C34: invalidate() changes validity flags only: the stored input and the
\* cached result of every slot are as before, so get_final_layout after an
\* invalidate() reports Err with the four boxes and the scale factor it
\* reported as Ok before, and draw is handed that last computed layout.
C34_InvalidateKeepsTheLayout ==
    /\ last.op = "invalidate" =>
          /\ \A n \in Nodes, s \in Slots :
                /\ cache[n][s].with_input = last.before[n][s].with_input
                /\ cache[n][s].cached = last.before[n][s].cached
          /\ \A n \in Chain(last.before, dropped, last.node, {}) :
                /\ ~GetFinalLayout(cache[n], attrs[n]).ok
                /\ GetFinalLayout(cache[n], attrs[n]).layout
                      = GetFinalLayout(last.before[n], attrs[n]).layout
    /\ (last.op = "draw" /\ last.after_invalidate) =>
          last.layout = PropsGetFinalLayout(last.before[last.node], attrs[last.node]).layout

\* a computed node is invalidated through its child and then drawn: the
\* layout drawn is the one that was valid, and it is not the zero layout
C34_Witness ==
    /\ last.op = "draw"
    /\ last.after_invalidate
    /\ last.node = 1
    /\ ~last.ok
    /\ last.before[1].cached_final.is_valid
    /\ last.before[2].parent = 1
    /\ last.layout.margin_box # Rect(0, 0, 0, 0)

(***************************************************************************)
(* Claims about lib.rs: Select                                             *)
(***************************************************************************)
\* the options of the Select that hold a parent link
LinkedOptions == { i \in 1..Len(Options) : cache[Options[i]].parent # NoNode }

\* C35: the assertion of set_parent (no existing link) never fails inside
\* Select::update_model, whatever the selector returns, the index selected
\* already and an index never selected before included: at most one option
\* of the Select holds a parent link at any time, no option holding one at
\* the start.
C35_SetParentNeverAsserts ==
    /\ Cardinality(LinkedOptions) <= 1
    /\ last.op = "select_update_model" => ~last.panicked

\* the selector has returned the index selected already, the option of
\* that index holding the link an earlier update_model moved to it
C35_Witness ==
    /\ last.op = "select_update_model"
    /\ last.ran
    /\ last.old_index = last.index
    /\ select.moved # NoNode
    /\ last.before[Options[last.index]].parent = select.moved
    /\ cache[Options[last.index]].parent = select.moved

\* the last operation was an update_model that moved the selection from an
\* option linked to a live parent
SelectionMoved ==
    /\ last.op = "select_update_model"
    /\ last.ran
    /\ last.old_index # last.index
    /\ last.before[Options[last.old_index]].parent # NoNode
    /\ last.before[Options[last.old_index]].parent \notin dropped

\* the holder was laid out right after the selection moved, with the input
\* its slot held as valid
LaidOutUnchanged ==
    /\ last.op = "holder_compute_layout"
    /\ last.switched
    /\ last.input.tag = "FinalLayout"
    /\ last.before[1].cached_final.with_input = last.input

\* the calls of the last layout of the holder that reached widget n
HolderCallsOn(n) ==
    { i \in 1..Len(last.log) : last.log[i].node = n /\ last.log[i].input.tag = "FinalLayout" }

\* C36: when Select::update_model changes the selected index, the layout
\* cache of the ancestor the link points to is invalidated, so the next
\* compute_layout of that ancestor with an unchanged LayoutInput recomputes
\* and gives the newly selected option a FinalLayout call.
C36_SwitchInvalidatesTheAncestor ==
    /\ SelectionMoved =>
          AllInvalid(cache[last.before[Options[last.old_index]].parent])
    /\ LaidOutUnchanged => (last.ran /\ HolderCallsOn(last.shown) # {})

\* what update_model does instead: the caches of the ancestor are as they
\* were, and its next compute_layout with the input of a valid slot returns
\* the cached layout without a call on the option
C36_SwitchLeavesTheAncestorAlone ==
    /\ SelectionMoved =>
          \A s \in Slots :
             LET p == last.before[Options[last.old_index]].parent
             IN  /\ cache[p][s].is_valid = last.before[p][s].is_valid
                 /\ cache[p][s].with_input = last.before[p][s].with_input
                 /\ cache[p][s].cached = last.before[p][s].cached
    /\ (LaidOutUnchanged /\ last.before[1].cached_final.is_valid) =>
          (~last.ran /\ HolderCallsOn(last.shown) = {})

\* the holder, its final slot valid, has been laid out with the same input
\* after the selection moved to an option never laid out
C36_StaleSeen ==
    /\ LaidOutUnchanged
    /\ last.before[1].cached_final.is_valid
    /\ ~cache[last.shown].cached_final.is_valid

(***************************************************************************)
(* Claims about tracking.rs: recomputation                                 *)
(***************************************************************************)
\* the last operation was a maybe_update that recomputed its cell
Recomputed ==
    /\ last.op \in {"maybe_update", "writer_maybe_update"}
    /\ last.returned

\* C37: when Derived::maybe_update or Computed::maybe_update returns after
\* recomputing, the Observer of the cell is Clean in every case, the case
\* included in which a Signal the computation had read already was written
\* (triggered) later during the same computation.
C37_CleanAfterRecompute ==
    Recomputed => obs[cell[last.cell].as_observer].is_dirty = Clean

\* the closure wrote a signal it had read, the write marked the observer of
\* the running computation Dirty, and the cell holds the value read before
\* the write
C37_Witness ==
    /\ Recomputed
    /\ last.cell \in WriterCells
    /\ \E w \in last.writes :
          /\ w.cell = last.cell
          /\ w.marked
          /\ sig[w.signal].value # cell[last.cell].value
    /\ obs[cell[last.cell].as_observer].is_dirty = Clean

\* the last maybe_update of a Computed2 invoked f
Computed2Ran ==
    \E i \in 1..Len(last.computes) : last.computes[i] = last.cell

\* C38: Computed2::maybe_update(input, f) invokes f exactly when the
\* Observer is Dirty or input differs from the stored input, and then
\* stores input, the value and a fresh Clean Observer; when the changed
\* input alone caused the recomputation (Observer Clean on entry), every
\* live Observer that had registered on the old Observer is Dirty afterwards.
C38_Computed2Contract ==
    last.op = "computed2_maybe_update" =>
        /\ Computed2Ran <=> (last.was_dirty \/ last.input # last.before.input)
        /\ Computed2Ran =>
              /\ cell[last.cell].input = last.input
              /\ cell[last.cell].value = last.value
              /\ cell[last.cell].as_observer # last.before.as_observer
              /\ obs[cell[last.cell].as_observer].live
              /\ obs[cell[last.cell].as_observer].is_dirty = Clean
        /\ ~Computed2Ran =>
              /\ cell[last.cell].input = last.before.input
              /\ cell[last.cell].value = last.before.value
              /\ cell[last.cell].as_observer = last.before.as_observer
        /\ (Computed2Ran /\ ~last.was_dirty) =>
              \A o \in last.dependents : obs[o].live => obs[o].is_dirty = Dirty

\* a changed input alone has made the layout cache of the Button recompute
\* while the observers of the Div's layout and of the Button's interactions
\* were registered on it and Clean
C38_Witness ==
    /\ last.op = "computed2_maybe_update"
    /\ last.cell = "button.layout_cache"
    /\ Computed2Ran
    /\ ~last.was_dirty
    /\ Cardinality({ o \in last.dependents : obs[o].live /\ last.obs[o].is_dirty = Clean }) >= 2

(***************************************************************************)
(* Claims about widgets/div.rs and widgets/label.rs: update                *)
(***************************************************************************)
\* the update_cache cells of the Divs above the Label whose text is cell d
AncestorCaches(d) ==
    IF d = "D1" THEN {"outer.update_cache", "inner.update_cache"}
    ELSE {"outer.update_cache"}

\* whether the last root update called update on widget w, and whether it
\* ran the closure of cell d
UpdateCalled(w) == \E i \in 1..Len(last.updates) : last.updates[i] = w
ClosureRan(d) == \E i \in 1..Len(last.computes) : last.computes[i] = d

\* C39: once a tree of nested Divs has been updated, a tracked write to a
\* Signal read by the text computation of a descendant Label leaves the
\* update_cache of every ancestor Div Dirty, and the next root update runs
\* the compute of that Label again; a Div whose update_cache is Clean calls
\* update on none of its children.
C39_UpdatePropagates ==
    /\ (last.op = "tree_write" /\ last.updated) =>
          \A d \in last.read_by :
             \A c \in AncestorCaches(d) : obs[cell[c].as_observer].is_dirty = Dirty
    /\ last.op = "root_update" =>
          /\ \A d \in last.after_write : ClosureRan(d)
          /\ last.before[last.cells["outer.update_cache"].as_observer].is_dirty = Clean
                => (~UpdateCalled("inner.update_cache") /\ ~UpdateCalled("title"))
          /\ last.before[last.cells["inner.update_cache"].as_observer].is_dirty = Clean
                => ~UpdateCalled("D1")

\* after a write to A, read by the title alone, the root update has run the
\* outer Div, which called update on the inner Div, Clean, and on the title;
\* the inner Div has called update on nothing
C39_Witness ==
    /\ last.op = "root_update"
    /\ last.after_write = {"title"}
    /\ ClosureRan("title")
    /\ UpdateCalled("inner.update_cache")
    /\ ~UpdateCalled("D1")
    /\ last.before[last.cells["inner.update_cache"].as_observer].is_dirty = Clean

\* after a write to C, read by the Label under both Divs, the root update
\* has run both Divs and the compute of that Label
C39_DeepWriteSeen ==
    /\ last.op = "root_update"
    /\ "D1" \in last.after_write
    /\ ClosureRan("outer.update_cache")
    /\ ClosureRan("inner.update_cache")
    /\ ClosureRan("D1")
=============================================================================
